---- MODULE Spec2Model ----
(***************************************************************************)
(* A model of chart-maker: the CSV heuristic parser (src/utils/            *)
(* csvParser.ts), the colour palette generator (src/types.ts), the colour  *)
(* assignment of the bubble chart (src/unnamed/part_000) and the handlers  *)
(* of the application shell (src/App.tsx).                                 *)
(*                                                                         *)
(* Text is a sequence of one-character strings, so that split, trim,       *)
(* replace, parseFloat and Number are computed character by character as   *)
(* the JavaScript built-ins compute them.  The alphabet is ASCII and        *)
(* Latin-1 (the code units 0 to 255).  Numbers are doubles.                *)
(***************************************************************************)
EXTENDS Integers, Sequences, FiniteSets, TLC

VARIABLES
    csv,        \* parseCSV: the argument
    parsed,     \* parseCSV: the value returned (NotRun before the call)
    baseColor,  \* generateScale: the argument baseColor
    steps,      \* generateScale: the argument steps
    palette,    \* generateScale: the value returned
    chartData,  \* App, charts box: data.map(d => ({name, value})), the rows
                \* of the dataset (BubbleChart's prop data when there are any)
    chartColors,\* App, charts box: the palette (BubbleChart's prop colors)
    fills,      \* charts box: the fill of each circle drawn, in order
    pc,         \* "call" before the function under study is called, then "done"
    labels,     \* App: useState(DEFAULT_LABELS)
    data,       \* App: useState(DEFAULT_DATA)
    color1,     \* App: useState(DEFAULT_COLOR_1)
    color2,     \* App: useState(DEFAULT_COLOR_2)
    darkMode,   \* App: useState(false)
    showImport, \* App: useState(false)
    importText, \* App: useState('')
    noteMode,   \* App: useState('shared')
    sharedNote, \* App: useState('')
    note1,      \* App: useState('')
    note2,      \* App: useState('')
    nOps,       \* the number of handler calls so far (bounded by MaxOps)
    confirmAnswer, \* what confirm(...) returned during the last event: "yes",
                \* "no", or "none" when the event showed no dialog
    storage,    \* localStorage: the item 'brandChartConfig'
    phase,      \* App: "mount" (first render done, effects not yet run),
                \* "loaded" (effects run, state updates queued), "ready"
    pending,    \* App: the state updates the load effect has queued
    savedConfig,\* App: what the load effect read from localStorage (kept until
                \* the next event)
    beforeRestart, \* the persisted fields as they were when the page was reloaded
    radius,     \* name label: d.r, the radius of the circle
    name,       \* name label: d.data.name
    charWidth,  \* name label: the rendered width of one character, in px
    fontSize,   \* name label: fontSize
    lineWords,  \* name label: line, the words of the line being filled
    tspans,     \* name label: the text of each tspan appended, in order
    tspan,      \* name label: the index in tspans of the variable tspan
    currentY,   \* name label: currentY
    wordIndex   \* name label: i, the index of the next word

parseVars == <<csv, parsed>>
scaleVars == <<baseColor, steps, palette>>
chartVars == <<chartData, chartColors, fills>>
noteVars == <<noteMode, sharedNote, note1, note2>>
storeVars == <<storage, phase, pending, savedConfig, beforeRestart>>
appVars == <<labels, data, color1, color2, darkMode, showImport, importText,
             noteVars, nOps, confirmAnswer, storeVars>>
labelVars == <<radius, name, charWidth, fontSize, lineWords, tspans, tspan,
               currentY, wordIndex>>
vars == <<parseVars, scaleVars, chartVars, pc, appVars, labelVars>>

(***************************************************************************)
(* JavaScript string built-ins on sequences of characters.                 *)
(***************************************************************************)
\* The white space and line terminators String.prototype.trim strips: tab,
\* line feed, vertical tab, form feed, carriage return, space and no-break
\* space.
IsSpace(c) == c \in {"\t", "\n", "", "\f", "\r", " ", " "}

RECURSIVE TrimStart(_)
TrimStart(s) ==
    IF s # <<>> /\ IsSpace(Head(s)) THEN TrimStart(Tail(s)) ELSE s

RECURSIVE TrimEnd(_)
TrimEnd(s) ==
    IF s # <<>> /\ IsSpace(s[Len(s)]) THEN TrimEnd(SubSeq(s, 1, Len(s) - 1)) ELSE s

\* line.trim(), c.trim()
Trim(s) == TrimEnd(TrimStart(s))

\* s.split(sep) for a one-character separator: "" splits to [""].
RECURSIVE SplitAcc(_, _, _, _)
SplitAcc(s, sep, cur, acc) ==
    IF s = <<>> THEN Append(acc, cur)
    ELSE IF Head(s) = sep THEN SplitAcc(Tail(s), sep, <<>>, Append(acc, cur))
    ELSE SplitAcc(Tail(s), sep, Append(cur, Head(s)), acc)

Split(s, sep) == SplitAcc(s, sep, <<>>, <<>>)

\* s.replace('%', ''): a string pattern replaces the first occurrence only.
RECURSIVE ReplacePercent(_)
ReplacePercent(s) ==
    IF s = <<>> THEN <<>>
    ELSE IF Head(s) = "%" THEN Tail(s)
    ELSE <<Head(s)>> \o ReplacePercent(Tail(s))

\* array.map(c => c.trim())
MapTrim(ss) == [i \in 1..Len(ss) |-> Trim(ss[i])]

NonEmpty(s) == Len(s) > 0

HexChars == <<"0", "1", "2", "3", "4", "5", "6", "7", "8", "9",
              "a", "b", "c", "d", "e", "f">>

\* toLowerCase on one character of the alphabet (ASCII and Latin-1).
LowerChar(c) ==
    LET upper == <<"A", "B", "C", "D", "E", "F", "G", "H", "I", "J", "K", "L", "M",
                   "N", "O", "P", "Q", "R", "S", "T", "U", "V", "W", "X", "Y", "Z",
                   "À", "Á", "Â", "Ã", "Ä", "Å", "Æ", "Ç", "È", "É", "Ê", "Ë", "Ì",
                   "Í", "Î", "Ï", "Ð", "Ñ", "Ò", "Ó", "Ô", "Õ", "Ö", "Ø", "Ù", "Ú",
                   "Û", "Ü", "Ý", "Þ">>
        lower == <<"a", "b", "c", "d", "e", "f", "g", "h", "i", "j", "k", "l", "m",
                   "n", "o", "p", "q", "r", "s", "t", "u", "v", "w", "x", "y", "z",
                   "à", "á", "â", "ã", "ä", "å", "æ", "ç", "è", "é", "ê", "ë", "ì",
                   "í", "î", "ï", "ð", "ñ", "ò", "ó", "ô", "õ", "ö", "ø", "ù", "ú",
                   "û", "ü", "ý", "þ">>
    IN  IF \E k \in 1..Len(upper) : upper[k] = c
        THEN lower[CHOOSE k \in 1..Len(upper) : upper[k] = c]
        ELSE c

IsHex(c) == \E k \in 1..16 : HexChars[k] = c
HexVal(c) == (CHOOSE k \in 1..16 : HexChars[k] = c) - 1

(***************************************************************************)
(* JavaScript numbers.  A number is an IEEE 754 double: NaN, an infinity,  *)
(* or sign * mant * 2^exp, where mant is odd (empty for 0, then with sign  *)
(* 1 and exp 0), so that two equal numbers are the same record.  mant is a *)
(* natural number of any size, held as its digits in base 2^15, lowest     *)
(* first, without leading zeros.  Every operation computes the exact       *)
(* result and rounds it to the nearest double, ties to the even mantissa,  *)
(* as the processor does.  0 and -0 are one value.  The operations on      *)
(* naturals split their digits in halves, so that an evaluation nests only *)
(* as deep as the logarithm of the length.                                 *)
(***************************************************************************)
Radix == 32768

Min(a, b) == IF a < b THEN a ELSE b
Max(a, b) == IF a > b THEN a ELSE b

\* The digit of weight Radix^(i-1), 0 outside the digits held.
Limb(a, i) == IF 1 <= i /\ i <= Len(a) THEN a[i] ELSE 0

\* a without its leading zeros.
BigTrim(a) ==
    IF \A i \in 1..Len(a) : a[i] = 0 THEN <<>>
    ELSE SubSeq(a, 1, CHOOSE k \in 1..Len(a) :
                          a[k] # 0 /\ \A j \in (k + 1)..Len(a) : a[j] = 0)

\* The natural number n, for n below Radix^3.
BigOf(n) == BigTrim(<<n % Radix, (n \div Radix) % Radix, n \div (Radix * Radix)>>)

\* Digits and the carry out of them, as one number.
BigJoin(digits) == BigTrim(Append(digits[1], digits[2]))

RECURSIVE BigAddRange(_, _, _, _, _)
\* Digits lo..hi of a + b and the carry out of them, given the carry in.
BigAddRange(a, b, lo, hi, carry) ==
    IF lo = hi
    THEN <<<<(Limb(a, lo) + Limb(b, lo) + carry) % Radix>>,
           (Limb(a, lo) + Limb(b, lo) + carry) \div Radix>>
    ELSE LET low == BigAddRange(a, b, lo, (lo + hi) \div 2, carry)
             high == BigAddRange(a, b, ((lo + hi) \div 2) + 1, hi, low[2])
         IN  <<low[1] \o high[1], high[2]>>

\* a + b
BigAdd(a, b) ==
    IF Len(a) = 0 THEN b
    ELSE IF Len(b) = 0 THEN a
    ELSE BigJoin(BigAddRange(a, b, 1, Max(Len(a), Len(b)), 0))

RECURSIVE BigSubRange(_, _, _, _, _)
\* Digits lo..hi of a - b and the borrow out of them, given the borrow in.
BigSubRange(a, b, lo, hi, borrow) ==
    IF lo = hi
    THEN <<<<(a[lo] - Limb(b, lo) - borrow) % Radix>>,
           IF a[lo] - Limb(b, lo) - borrow < 0 THEN 1 ELSE 0>>
    ELSE LET low == BigSubRange(a, b, lo, (lo + hi) \div 2, borrow)
             high == BigSubRange(a, b, ((lo + hi) \div 2) + 1, hi, low[2])
         IN  <<low[1] \o high[1], high[2]>>

\* a - b, for a >= b
BigSub(a, b) ==
    IF Len(b) = 0 \/ Len(a) = 0 THEN a
    ELSE BigTrim(BigSubRange(a, b, 1, Len(a), 0)[1])

\* -1, 0 or 1 as a is less than, equal to or greater than b.
BigCmp(a, b) ==
    IF Len(a) # Len(b) THEN (IF Len(a) < Len(b) THEN 0 - 1 ELSE 1)
    ELSE IF \A i \in 1..Len(a) : a[i] = b[i] THEN 0
    ELSE IF \E k \in 1..Len(a) : a[k] < b[k] /\ \A j \in (k + 1)..Len(a) : a[j] = b[j]
    THEN 0 - 1
    ELSE 1

RECURSIVE BigScaleRange(_, _, _, _, _)
\* Digits lo..hi of a * k and the carry out of them, given the carry in.
BigScaleRange(a, k, lo, hi, carry) ==
    IF lo = hi
    THEN <<<<(a[lo] * k + carry) % Radix>>, (a[lo] * k + carry) \div Radix>>
    ELSE LET low == BigScaleRange(a, k, lo, (lo + hi) \div 2, carry)
             high == BigScaleRange(a, k, ((lo + hi) \div 2) + 1, hi, low[2])
         IN  <<low[1] \o high[1], high[2]>>

\* a * k + c for k and c below Radix
BigScale(a, k, c) ==
    IF Len(a) = 0 THEN BigTrim(<<c>>)
    ELSE BigJoin(BigScaleRange(a, k, 1, Len(a), c))

RECURSIVE BigMulRange(_, _, _, _)
\* a times the digits lo..hi of b at their weights.
BigMulRange(a, b, lo, hi) ==
    IF lo = hi THEN [i \in 1..(lo - 1) |-> 0] \o BigScale(a, b[lo], 0)
    ELSE BigAdd(BigMulRange(a, b, lo, (lo + hi) \div 2),
                BigMulRange(a, b, ((lo + hi) \div 2) + 1, hi))

\* a * b
BigMul(a, b) ==
    IF Len(a) = 0 \/ Len(b) = 0 THEN <<>>
    ELSE BigTrim(BigMulRange(a, b, 1, Len(b)))

\* The number of binary digits of a.
BigBits(a) ==
    IF Len(a) = 0 THEN 0
    ELSE 15 * (Len(a) - 1)
         + CHOOSE k \in 1..15 : 2^(k - 1) <= a[Len(a)] /\ a[Len(a)] < 2^k

\* The binary digit of weight 2^i
BitAt(a, i) == (Limb(a, (i \div 15) + 1) \div 2^(i % 15)) % 2

\* The number of zeros a ends with in binary, for a > 0.
TrailingZeros(a) ==
    LET j == CHOOSE j \in 1..Len(a) : a[j] # 0 /\ \A i \in 1..(j - 1) : a[i] = 0
    IN  15 * (j - 1) + CHOOSE k \in 0..14 : a[j] % 2^k = 0 /\ a[j] % 2^(k + 1) # 0

\* a * 2^k
BigShl(a, k) ==
    IF Len(a) = 0 THEN <<>>
    ELSE [i \in 1..(k \div 15) |-> 0]
         \o BigTrim([i \in 1..(Len(a) + 1) |->
                        ((Limb(a, i) * 2^(k % 15)) % Radix)
                        + (Limb(a, i - 1) \div 2^(15 - (k % 15)))])

\* a \div 2^k
BigShr(a, k) ==
    IF k \div 15 >= Len(a) THEN <<>>
    ELSE BigTrim([i \in 1..(Len(a) - (k \div 15)) |->
                     (Limb(a, (k \div 15) + i) \div 2^(k % 15))
                     + (Limb(a, (k \div 15) + i + 1) % 2^(k % 15)) * 2^(15 - (k % 15))])

RECURSIVE BigDigit(_, _, _, _)
\* One digit of a quotient, <<<<rem \div b>>, rem % b>>, from a guess that is
\* the digit or more and from product = guess * b.
BigDigit(rem, b, guess, product) ==
    IF BigCmp(product, rem) <= 0 THEN <<<<guess>>, BigSub(rem, product)>>
    ELSE BigDigit(rem, b, guess - 1, BigSub(product, b))

\* The two highest digits of rem divided by the highest of b, which is
\* Radix / 2 or more, for rem < b * Radix: rem \div b or up to 2 more.
BigGuess(rem, b) ==
    Min((Limb(rem, Len(b) + 1) * Radix + Limb(rem, Len(b))) \div b[Len(b)], Radix - 1)

RECURSIVE BigDivRange(_, _, _, _, _)
\* Long division of the digits hi..lo of a by b, given the remainder of the
\* digits above them: <<quotient digits, highest first, remainder>>.
BigDivRange(a, b, hi, lo, rem) ==
    IF hi = lo
    THEN BigDigit(BigTrim(<<a[hi]>> \o rem), b, BigGuess(BigTrim(<<a[hi]>> \o rem), b),
                  BigScale(b, BigGuess(BigTrim(<<a[hi]>> \o rem), b), 0))
    ELSE LET high == BigDivRange(a, b, hi, ((hi + lo) \div 2) + 1, rem)
             low == BigDivRange(a, b, (hi + lo) \div 2, lo, high[2])
         IN  <<high[1] \o low[1], low[2]>>

\* The quotient digits, highest first, as a number.
BigReverse(q) == BigTrim([i \in 1..Len(q) |-> q[Len(q) + 1 - i]])

\* <<a \div b, a % b>> for b > 0 with a highest digit of Radix / 2 or more.
BigDivNormal(a, b) ==
    IF Len(a) = 0 THEN <<<<>>, <<>>>> ELSE BigDivRange(a, b, Len(a), 1, <<>>)

\* <<a \div b, (a % b) * 2^shift>> from the division of a * 2^shift by
\* b * 2^shift.
BigDivShifted(qr, shift) == <<BigReverse(qr[1]), BigShr(qr[2], shift)>>

\* <<a \div b, a % b>> for b > 0: both are shifted until the highest digit of
\* b is Radix / 2 or more, which leaves the quotient as it is.
BigDivMod(a, b) ==
    BigDivShifted(BigDivNormal(BigShl(a, 15 * Len(b) - BigBits(b)),
                               BigShl(b, 15 * Len(b) - BigBits(b))),
                  15 * Len(b) - BigBits(b))

RECURSIVE BigPow(_, _)
\* r^k for r below Radix
BigPow(r, k) ==
    IF k = 0 THEN <<1>>
    ELSE IF k % 2 = 1 THEN BigScale(BigPow(r, k - 1), r, 0)
    ELSE LET half == BigPow(r, k \div 2) IN BigMul(half, half)

Finite(s, m, e) == [cls |-> "finite", sign |-> s, mant |-> m, exp |-> e]
Zero == [cls |-> "finite", sign |-> 1, mant |-> <<>>, exp |-> 0]
NaN == [cls |-> "nan", sign |-> 1, mant |-> <<>>, exp |-> 0]
Infinity == [cls |-> "infinite", sign |-> 1, mant |-> <<>>, exp |-> 0]
\* Infinity (s = 1) or -Infinity (s = -1)
Inf(s) == [cls |-> "infinite", sign |-> s, mant |-> <<>>, exp |-> 0]

IsNaN(x) == x.cls = "nan"
IsFinite(x) == x.cls = "finite"

\* s * m * 2^e for m > 0 that ends with zeros binary zeros.
Odd(s, m, e, zeros) == Finite(s, BigShr(m, zeros), e + zeros)

\* The double s * m * 2^e for m of at most 53 binary digits; Infinity from
\* 2^1024 on.
Canon(s, m, e) ==
    IF Len(m) = 0 THEN Zero
    ELSE IF BigBits(m) + e > 1024 THEN Inf(s)
    ELSE Odd(s, m, e, TrailingZeros(m))

\* Whether q + f without its lowest drop binary digits is rounded up, where
\* 0 <= f < 1 and sticky tells whether f > 0: when what is dropped is more
\* than half of the lowest digit kept, or is half of it and that digit is 1.
RoundsUp(q, sticky, drop) ==
    /\ BitAt(q, drop - 1) = 1
    /\ (sticky \/ TrailingZeros(q) < drop - 1 \/ BitAt(q, drop) = 1)

\* q + f rounded to a multiple of 2^drop, in units of 2^drop.
Rounded(q, sticky, drop) ==
    IF drop <= 0 THEN q
    ELSE IF RoundsUp(q, sticky, drop) THEN BigAdd(BigShr(q, drop), <<1>>)
    ELSE BigShr(q, drop)

\* The double nearest to s * (qr[1] + f) * 2^e, where 0 <= f < 1 and f > 0
\* when qr[2] > 0.  A double has 53 binary digits, and none below 2^-1074.
RoundQuotient(s, qr, e) ==
    Canon(s,
          Rounded(qr[1], Len(qr[2]) > 0, Max(BigBits(qr[1]) - 53, (0 - 1074) - e)),
          e + Max(Max(BigBits(qr[1]) - 53, (0 - 1074) - e), 0))

\* The double nearest to s * m * 2^e.
Exact(s, m, e) == IF Len(m) = 0 THEN Zero ELSE RoundQuotient(s, <<m, <<>>>>, e)

\* The double nearest to s * (n / d) * 2^e, for natural numbers n > 0 and
\* d > 0: the quotient is computed to 55 binary digits or more, up being the
\* binary digits added to n (taken from d when negative).
Quotient(s, n, d, e, up) ==
    RoundQuotient(s, BigDivMod(BigShl(n, Max(up, 0)), BigShl(d, Max(0 - up, 0))), e - up)

\* The double nearest to s * (n / d) * 2^e, for natural numbers n and d > 0.
DoubleOf(s, n, d, e) ==
    IF Len(n) = 0 THEN Zero
    ELSE Quotient(s, n, d, e, 55 - (BigBits(n) - BigBits(d)))

\* The double of the integer n.
Num(n) == Canon(IF n < 0 THEN 0 - 1 ELSE 1, BigOf(IF n < 0 THEN 0 - n ELSE n), 0)

\* -x
DNeg(x) == IF IsNaN(x) \/ x = Zero THEN x
           ELSE [x EXCEPT !.sign = 0 - x.sign]

\* s * a * 2^e + t * b * 2^e
DSum(s, a, t, b, e) ==
    Exact(IF s = t \/ BigCmp(a, b) >= 0 THEN s ELSE t,
          IF s = t THEN BigAdd(a, b)
          ELSE IF BigCmp(a, b) >= 0 THEN BigSub(a, b)
          ELSE BigSub(b, a),
          e)

\* x + y
DAdd(x, y) ==
    IF IsNaN(x) \/ IsNaN(y) THEN NaN
    ELSE IF ~IsFinite(x) THEN (IF ~IsFinite(y) /\ y.sign # x.sign THEN NaN ELSE x)
    ELSE IF ~IsFinite(y) \/ x = Zero THEN y
    ELSE IF y = Zero THEN x
    ELSE DSum(x.sign, BigShl(x.mant, x.exp - Min(x.exp, y.exp)),
              y.sign, BigShl(y.mant, y.exp - Min(x.exp, y.exp)), Min(x.exp, y.exp))

\* x - y
DSub(x, y) == DAdd(x, DNeg(y))

\* x * y
DMul(x, y) ==
    IF IsNaN(x) \/ IsNaN(y) THEN NaN
    ELSE IF ~IsFinite(x) \/ ~IsFinite(y)
    THEN (IF x = Zero \/ y = Zero THEN NaN ELSE Inf(x.sign * y.sign))
    ELSE Exact(x.sign * y.sign, BigMul(x.mant, y.mant), x.exp + y.exp)

\* x / y
DDiv(x, y) ==
    IF IsNaN(x) \/ IsNaN(y) THEN NaN
    ELSE IF ~IsFinite(x) THEN (IF ~IsFinite(y) THEN NaN ELSE Inf(x.sign * y.sign))
    ELSE IF ~IsFinite(y) THEN Zero
    ELSE IF y = Zero THEN (IF x = Zero THEN NaN ELSE Inf(x.sign))
    ELSE DoubleOf(x.sign * y.sign, x.mant, y.mant, x.exp - y.exp)

\* -1, 0 or 1 as x is below, equal to or above 0, for x other than NaN.
SignOf(x) == IF x = Zero THEN 0 ELSE x.sign

\* |x| < |y| for x and y other than 0 and NaN: by their highest binary
\* digits, or digit by digit when these have the same weight.
MagLess(x, y) ==
    IF ~IsFinite(x) THEN FALSE
    ELSE IF ~IsFinite(y) THEN TRUE
    ELSE IF BigBits(x.mant) + x.exp # BigBits(y.mant) + y.exp
    THEN BigBits(x.mant) + x.exp < BigBits(y.mant) + y.exp
    ELSE BigCmp(BigShl(x.mant, x.exp - Min(x.exp, y.exp)),
                BigShl(y.mant, y.exp - Min(x.exp, y.exp))) < 0

\* x < y: false when either is NaN.
DLess(x, y) ==
    /\ ~IsNaN(x)
    /\ ~IsNaN(y)
    /\ IF SignOf(x) # SignOf(y) THEN SignOf(x) < SignOf(y)
       ELSE IF SignOf(x) = 0 THEN FALSE
       ELSE MagLess(IF x.sign > 0 THEN x ELSE y, IF x.sign > 0 THEN y ELSE x)

\* s * (n * 2^-f) % m for natural numbers n and f: the remainder of the whole
\* part, and the fraction as it is.
Remainder(s, n, f, m) ==
    Exact(s,
          BigAdd(BigShl(BigDivMod(BigShr(n, f), m)[2], f),
                 BigSub(n, BigShl(BigShr(n, f), f))),
          0 - f)

\* x % m for an integer 0 < m < Radix: the remainder has the sign of x.
DMod(x, m) ==
    IF ~IsFinite(x) THEN NaN
    ELSE Remainder(x.sign, BigShl(x.mant, Max(x.exp, 0)), Max(0 - x.exp, 0), <<m>>)

\* Math.round(x) for 0 <= x < Radix: the nearest integer, halves up.
DRound(x) ==
    IF x.exp >= 0 THEN Limb(BigShl(x.mant, x.exp), 1)
    ELSE Limb(BigShr(BigAdd(x.mant, BigShl(<<1>>, (0 - x.exp) - 1)), 0 - x.exp), 1)

(***************************************************************************)
(* Numbers from text: parseFloat and Number.                               *)
(***************************************************************************)
DigitChars == <<"0", "1", "2", "3", "4", "5", "6", "7", "8", "9">>
IsDigit(c) == \E d \in 1..10 : DigitChars[d] = c
DigitVal(c) == (CHOOSE d \in 1..10 : DigitChars[d] = c) - 1

\* The number of decimal digits s starts with.
DigitRun(s) ==
    CHOOSE n \in 0..Len(s) :
        /\ \A i \in 1..n : IsDigit(s[i])
        /\ n < Len(s) => ~IsDigit(s[n + 1])

RECURSIVE BigOfText(_, _)
\* The natural number the digits s write in the given radix.
BigOfText(s, radix) ==
    IF Len(s) = 0 THEN <<>>
    ELSE IF Len(s) = 1 THEN BigOf(HexVal(LowerChar(s[1])))
    ELSE LET low == Len(s) \div 2
         IN  BigAdd(BigMul(BigOfText(SubSeq(s, 1, Len(s) - low), radix), BigPow(radix, low)),
                    BigOfText(SubSeq(s, Len(s) - low + 1, Len(s)), radix))

RECURSIVE ExponentOf(_)
\* The number the decimal digits s write; 99999 stands for every number from
\* there on (no double has a decimal exponent that large).
ExponentOf(s) ==
    IF Len(s) = 0 THEN 0
    ELSE IF s[1] = "0" THEN ExponentOf(Tail(s))
    ELSE IF Len(s) > 5 THEN 99999
    ELSE 10 * ExponentOf(SubSeq(s, 1, Len(s) - 1)) + DigitVal(s[Len(s)])

\* The ExponentPart s starts with: <<its length, its value>>, <<0, 0>> when s
\* does not start with "e" or "E", an optional sign and a digit.
ExponentPart(s) ==
    LET part(from, g) ==
            IF s # <<>> /\ s[1] \in {"e", "E"} /\ g > 0
            THEN <<from - 1 + g,
                   (IF s[2] = "-" THEN 0 - 1 ELSE 1) * ExponentOf(SubSeq(s, from, from + g - 1))>>
            ELSE <<0, 0>>
        digits(from) == part(from, DigitRun(SubSeq(s, from, Len(s))))
    IN  digits(IF Len(s) >= 2 /\ s[2] \in {"+", "-"} THEN 3 ELSE 2)

\* The longest StrUnsignedDecimalLiteral s starts with, other than Infinity:
\* digits, "." and digits of which one run may be empty, and an exponent.
\* len is its length (0 when there is none); it stands for the number that
\* digits writes, times 10^e10.
DecimalPrefix(s) ==
    LET parts(i, f, m, exponent) ==
            [len |-> IF i + f = 0 THEN 0 ELSE m + exponent[1],
             digits |-> SubSeq(s, 1, i) \o SubSeq(s, i + 2, i + 1 + f),
             e10 |-> exponent[2] - f]
        mantissa(i, f, m) == parts(i, f, m, ExponentPart(SubSeq(s, m + 1, Len(s))))
        fraction(i, dotted, f) == mantissa(i, f, IF dotted THEN i + 1 + f ELSE i)
        point(i, dotted) ==
            fraction(i, dotted, IF dotted THEN DigitRun(SubSeq(s, i + 2, Len(s))) ELSE 0)
        whole(i) == point(i, i < Len(s) /\ s[i + 1] = ".")
    IN  whole(DigitRun(s))

\* The double nearest to sign * n * 10^e10 for a natural number n below
\* 10^count: 0 when n is 0 or the product is below half of 2^-1074, the least
\* double above 0, and Infinity from 10^309.
Decimal(sign, n, count, e10) ==
    IF Len(n) = 0 \/ count + e10 < 0 - 323 THEN Zero
    ELSE IF e10 >= 309 THEN Inf(sign)
    ELSE DoubleOf(sign, BigMul(n, BigPow(10, Max(e10, 0))), BigPow(10, Max(0 - e10, 0)), 0)

\* The value undefined (a missing array element).
Undefined == <<"undefined">>

InfinityChars == <<"I", "n", "f", "i", "n", "i", "t", "y">>

\* The text t without a sign at its start, and the sign.
Unsigned(t) == IF t # <<>> /\ Head(t) \in {"-", "+"} THEN Tail(t) ELSE t
SignOfText(t) == IF t # <<>> /\ Head(t) = "-" THEN 0 - 1 ELSE 1

\* The number of sign and body, where d is the decimal literal body starts
\* with: Infinity, d, or NaN when there is none.  With whole, the body must
\* be one entirely; without, what follows it is ignored.
StrDecimal(sign, body, d, whole) ==
    IF SubSeq(body, 1, IF whole THEN Len(body) ELSE Min(Len(body), 8)) = InfinityChars
    THEN Inf(sign)
    ELSE IF d.len = 0 \/ (whole /\ d.len # Len(body)) THEN NaN
    ELSE Decimal(sign, BigOfText(d.digits, 10), Len(d.digits), d.e10)

\* StrDecimalLiteral: an optional sign, then "Infinity" or a decimal literal.
StrDecimalLiteral(t, whole) ==
    StrDecimal(SignOfText(t), Unsigned(t), DecimalPrefix(Unsigned(t)), whole)

\* parseFloat(str): leading white space, an optional sign, then "Infinity" or
\* the longest decimal literal; what follows is ignored; NaN without one.
ParseFloat(str) ==
    IF str = Undefined THEN NaN ELSE StrDecimalLiteral(TrimStart(str), FALSE)

\* The radix the prefix of t announces, 0 without one.
RadixOf(t) ==
    IF Len(t) < 2 \/ t[1] # "0" THEN 0
    ELSE IF t[2] \in {"x", "X"} THEN 16
    ELSE IF t[2] \in {"o", "O"} THEN 8
    ELSE IF t[2] \in {"b", "B"} THEN 2
    ELSE 0

\* StringNumericLiteral without the white space around it: "" is 0; "0x",
\* "0o" and "0b" start an unsigned integer in radix 16, 8 and 2; otherwise
\* an optional sign and "Infinity" or a whole decimal literal; NaN for
\* anything else.
StringNumericLiteral(t, radix) ==
    IF t = <<>> THEN Zero
    ELSE IF radix = 0 THEN StrDecimalLiteral(t, TRUE)
    ELSE IF Len(t) > 2 /\ \A i \in 3..Len(t) :
                IsHex(LowerChar(t[i])) /\ HexVal(LowerChar(t[i])) < radix
    THEN Exact(1, BigOfText(SubSeq(t, 3, Len(t)), radix), 0)
    ELSE NaN

\* Number(value) for a string: white space is trimmed at both ends.
NumberOf(value) == StringNumericLiteral(Trim(value), RadixOf(Trim(value)))

(***************************************************************************)
(* parseCSV                                                                *)
(***************************************************************************)
MetricDefault1 == <<"M", "e", "t", "r", "i", "c", " ", "1">>
MetricDefault2 == <<"M", "e", "t", "r", "i", "c", " ", "2">>

\* parts[i] for a 0-based index, undefined past the end.
At(parts, i) == IF i < Len(parts) THEN parts[i + 1] ELSE Undefined

\* x || dflt for a string or undefined x
OrElse(x, dflt) == IF x = Undefined \/ x = <<>> THEN dflt ELSE x

\* csv.split('\n').map(line => line.trim()).filter(line => line.length > 0)
CsvLines(text) == SelectSeq(MapTrim(Split(text, "\n")), NonEmpty)

\* parts[1]?.trim().replace('%','')
SecondCol(parts) ==
    IF At(parts, 1) = Undefined THEN Undefined ELSE ReplacePercent(Trim(At(parts, 1)))

\* The test of the header loop's body.
LooksLikeHeader(line) ==
    LET parts == Split(line, ",")
    IN  Len(parts) >= 3 /\ IsNaN(ParseFloat(SecondCol(parts)))

HeaderScan == 5

\* The least of the indices hits, 0 when there is none.
FirstOf(hits) == IF hits = {} THEN 0 ELSE CHOOSE i \in hits : \A j \in hits : i <= j

\* Faulty variant: the header loop scans every line instead of the first 5.
HeaderIndexNoLimit(lines) ==
    FirstOf({i \in 0..(Len(lines) - 1) : LooksLikeHeader(lines[i + 1])})

\* The header loop: the first i < min(lines.length, 5) that passes, else 0.
HeaderIndex(lines) ==
    FirstOf({i \in 0..(Min(Len(lines), HeaderScan) - 1) : LooksLikeHeader(lines[i + 1])})

\* Faulty variant: the leading-comma format is never recognised.
ShiftNever(cleanRow) == 0

\* Faulty variant: the shift is taken from 3 fields on (>= 3 for > 3).
ShiftOffByOne(cleanRow) == IF cleanRow[1] = <<>> /\ Len(cleanRow) >= 3 THEN 1 ELSE 0

\* The column the category is read from: 1 for the leading-comma format.
Shift(cleanRow) == IF cleanRow[1] = <<>> /\ Len(cleanRow) > 3 THEN 1 ELSE 0

\* parseFloat(valStr?.replace('%', '') || '0')
MetricOf(valStr) ==
    ParseFloat(OrElse(IF valStr = Undefined THEN Undefined ELSE ReplacePercent(valStr),
                      <<"0">>))

\* if (category && !isNaN(val1) && !isNaN(val2)) data.push(...): the rows
\* pushed (none or one).
Pushed(category, val) ==
    IF category = <<>> THEN <<>>
    ELSE IF ~IsNaN(val[1]) /\ ~IsNaN(val[2])
    THEN <<[category |-> category, metric1 |-> val[1], metric2 |-> val[2]]>>
    ELSE <<>>

\* One pass of the data loop over the trimmed fields of a line.
RowsOfFields(cleanRow) ==
    Pushed(At(cleanRow, Shift(cleanRow)),
           [j \in 1..2 |-> MetricOf(At(cleanRow, Shift(cleanRow) + j))])

\* One pass of the data loop: the rows this line pushes.
RowsOfLine(line) == RowsOfFields(MapTrim(Split(line, ",")))

RECURSIVE DataFrom(_, _)
\* The data loop from 0-based line i on.
DataFrom(lines, i) ==
    IF i >= Len(lines) THEN <<>>
    ELSE RowsOfLine(lines[i + 1]) \o DataFrom(lines, i + 1)

\* What a call that throws yields.
TypeError == [error |-> "TypeError"]

\* Lines 26-72: the titles and the data loop, given the header's index.
ParseFrom(lines, headerIndex) ==
    IF At(lines, headerIndex) = Undefined THEN TypeError
    ELSE LET headerRow == MapTrim(Split(lines[headerIndex + 1], ","))
         IN  [title1 |-> OrElse(At(headerRow, 1), MetricDefault1),
              title2 |-> OrElse(At(headerRow, 2), MetricDefault2),
              data |-> DataFrom(lines, headerIndex + 1)]

\* Lines 14-72: the body after the empty-input return.
ParseLines(lines) == ParseFrom(lines, HeaderIndex(lines))

\* Faulty variant: without the return for an input that has no non-empty line.
ParseCSVNoEmptyReturn(text) == ParseLines(CsvLines(text))

ParseCSV(text) ==
    IF Len(CsvLines(text)) = 0
    THEN [title1 |-> MetricDefault1, title2 |-> MetricDefault2, data |-> <<>>]
    ELSE ParseLines(CsvLines(text))

(***************************************************************************)
(* The application shell (src/App.tsx): its state after construction.      *)
(***************************************************************************)
DEFAULT_LABELS ==
    [title1 |-> <<"P", "e", "o", "p", "l", "e", " ", "(", "%", ")">>,
     title2 |-> <<"E", "s", "t", ".", " ", "M", "a", "r", "k", "e", "t", " ", "V", "a", "l",
                "u", "e", " ", "(", "%", ")">>]

DEFAULT_DATA == <<
    [category |->
         <<"G", "e", "n", "e", "r", "a", "l", " ", "s", "i", "g", "h", "t", "s", "e",
         "e", "i", "n", "g", " ", "i", "n", " ", "S", "t", "a", "n", "d", "a",
         "r", "d", " ", "a", "n", "d", " ", "S", "t", "a", "n", "d", "a", "r",
         "d", " ", "P", "r", "e", "m", "i", "e", "r">>,
     metric1 |-> Num(25), metric2 |-> Num(21)],
    [category |->
         <<"V", "i", "s", "i", "t", "i", "n", "g", " ", "f", "r", "i", "e", "n", "d",
         "s", " ", "o", "r", " ", "f", "a", "m", "i", "l", "y", " ", "i", "n",
         " ", "S", "t", "a", "n", "d", "a", "r", "d", " ", "a", "n", "d", " ",
         "S", "t", "a", "n", "d", "a", "r", "d", " ", "P", "r", "e", "m", "i",
         "e", "r">>,
     metric1 |-> Num(14), metric2 |-> Num(12)],
    [category |->
         <<"R", "o", "m", "a", "n", "t", "i", "c", " ", "/", " ", "s", "p", "e", "c",
         "i", "a", "l", " ", "o", "c", "c", "a", "s", "i", "o", "n", " ", "i",
         "n", " ", "S", "t", "a", "n", "d", "a", "r", "d", " ", "a", "n", "d",
         " ", "S", "t", "a", "n", "d", "a", "r", "d", " ", "P", "r", "e", "m",
         "i", "e", "r">>,
     metric1 |-> Num(8), metric2 |-> Num(7)],
    [category |->
         <<"B", "u", "s", "i", "n", "e", "s", "s", " ", "i", "n", " ", "B", "u", "s",
         "i", "n", "e", "s", "s", " ", "P", "r", "e", "m", "i", "e", "r">>,
     metric1 |-> Num(9), metric2 |-> Num(18)] >>

DEFAULT_COLOR_1 == <<"#", "E", "5", "D", "D", "F", "F">>
DEFAULT_COLOR_2 == <<"#", "4", "F", "5", "8", "7", "0">>

NewCategory == <<"N", "e", "w", " ", "C", "a", "t", "e", "g", "o", "r", "y">>

\* The useState initial values.
InitApp ==
    /\ labels = DEFAULT_LABELS
    /\ data = DEFAULT_DATA
    /\ color1 = DEFAULT_COLOR_1
    /\ color2 = DEFAULT_COLOR_2
    /\ darkMode = FALSE
    /\ showImport = FALSE
    /\ importText = <<>>
    /\ noteMode = "shared"
    /\ sharedNote = <<>>
    /\ note1 = <<>>
    /\ note2 = <<>>
    /\ nOps = 0
    /\ confirmAnswer = "none"

(***************************************************************************)
(* The inputs of parseCSV: texts of up to MaxRichLines lines drawn from    *)
(* RichLines, and texts of up to MaxLongLines lines drawn from LongLines   *)
(* (long enough to pass the 5-line header scan).                           *)
(***************************************************************************)
MaxRichLines == 3
MaxLongLines == 6

RichLines == {
    <<"c", ",", "A", ",", "B">>,
    <<"c", ",", ",", "B">>,
    <<"c", ",", "A">>,
    <<"X", ",", "1", "0", "%", ",", "2", "0", "%">>,
    <<"Y", ",", "5", ",", "1", "5">>,
    <<",", "X", ",", "1", "0", ",", "2", "0">>,
    <<",", "Y", ",", "5", ",", "1", "5">>,
    <<",", "5", ",", "6">>,
    <<",", "5", ",", "6", ",", "7">>,
    <<"X", ",", "-", "5", ",", "1", "0">>,
    <<"X", ",", ",", "7">>,
    <<"X", ",", "7">>,
    <<"X", ",", "a", "b", ",", "7">>,
    <<"X", ",", "7", ",", "a", "b">>,
    <<" ", "Y", " ", ",", " ", "5", "%", " ", ",", "1", "5", "\r">>,
    <<"Z", ",", ".", "5", ",", "1", "e", "3">>,
    <<" ", " ", "\f">>,
    <<>> }

LongLines == {
    <<"1", ",", "2", ",", "3">>,
    <<"c", ",", "A", ",", "B">>,
    <<"Y", ",", "5">> }

RECURSIVE Join(_, _)
\* lines.join(sep)
Join(ls, sep) ==
    IF ls = <<>> THEN <<>>
    ELSE IF Len(ls) = 1 THEN ls[1]
    ELSE ls[1] \o <<sep>> \o Join(Tail(ls), sep)

SeqsUpTo(S, n) == UNION {[1..k -> S] : k \in 0..n}

CsvInputs ==
    {Join(ls, "\n") : ls \in SeqsUpTo(RichLines, MaxRichLines)}
    \cup {Join(ls, "\n") : ls \in SeqsUpTo(LongLines, MaxLongLines)}

NotRun == [error |-> "not run"]

\* The variables of the other components, at rest.
IdleParse == csv = <<>> /\ parsed = NotRun
IdleScale == baseColor = <<>> /\ steps = 0 /\ palette = <<>>
IdleChart == chartData = <<>> /\ chartColors = <<>> /\ fills = <<>>
IdleLabel ==
    /\ radius = 0 /\ name = <<>> /\ charWidth = 0 /\ fontSize = <<0, 1>>
    /\ lineWords = <<>> /\ tspans = <<>> /\ tspan = 0 /\ currentY = <<0, 1>>
    /\ wordIndex = 0
IdleStore ==
    /\ storage = [kind |-> "absent"] /\ phase = "ready" /\ pending = <<>>
    /\ savedConfig = [kind |-> "unread"] /\ beforeRestart = [restarted |-> FALSE]

InitParse ==
    /\ csv \in CsvInputs
    /\ parsed = NotRun
    /\ pc = "call"
    /\ IdleScale /\ IdleChart /\ IdleLabel /\ InitApp /\ IdleStore

\* const parsed = parseCSV(csv)
Parse ==
    /\ pc = "call"
    /\ parsed' = ParseCSV(csv)
    /\ pc' = "done"
    /\ UNCHANGED <<csv, scaleVars, chartVars, appVars, labelVars>>

NextParse == Parse

SpecParse == InitParse /\ [][NextParse]_vars

(***************************************************************************)
(* Exact rationals <<n, d>>, d > 0 (<<0, 0>> is NaN), for the lengths of   *)
(* the name label and for what the claims measure.                         *)
(***************************************************************************)
RECURSIVE Gcd(_, _)
Gcd(a, b) == IF b = 0 THEN a ELSE Gcd(b, a % b)

Abs(x) == IF x < 0 THEN 0 - x ELSE x

RNaN == <<0, 0>>
RIsNaN(x) == x = RNaN

\* n / d in lowest terms, for d > 0.
Rat(n, d) == LET g == Gcd(Abs(n), d) IN <<n \div g, d \div g>>

\* IEEE arithmetic on these numbers: <<1, 0>> is Infinity, <<-1, 0>> is
\* -Infinity (a number is finite when its second part is not 0), and any
\* operation on NaN is NaN.
RAdd(x, y) ==
    IF x[2] # 0 /\ y[2] # 0
    THEN Rat(x[1] * y[2] + y[1] * x[2], x[2] * y[2])
    ELSE IF RIsNaN(x) \/ RIsNaN(y) THEN RNaN
    ELSE IF x[2] # 0 THEN y
    ELSE IF y[2] # 0 \/ x = y THEN x
    ELSE RNaN

RSub(x, y) == RAdd(x, <<0 - y[1], y[2]>>)

RMul(x, y) ==
    IF x[2] # 0 /\ y[2] # 0
    THEN LET g1 == Gcd(Abs(x[1]), y[2])
             g2 == Gcd(Abs(y[1]), x[2])
         IN  Rat((x[1] \div g1) * (y[1] \div g2), (x[2] \div g2) * (y[2] \div g1))
    ELSE IF x[1] = 0 \/ y[1] = 0 THEN RNaN
    ELSE IF (x[1] < 0) = (y[1] < 0) THEN <<1, 0>>
    ELSE <<0 - 1, 0>>

\* x < y: false when either is NaN.
RLess(x, y) ==
    IF x[2] = 0 /\ y[2] = 0
    THEN x = <<0 - 1, 0>> /\ y = <<1, 0>>
    ELSE x[1] * y[2] < y[1] * x[2]

(***************************************************************************)
(* generateScale (src/types.ts) and the d3 functions it calls.             *)
(***************************************************************************)
\* d3-color's table of the CSS colour names, each with its 0xrrggbb number.
named == <<
    <<<<"a", "l", "i", "c", "e", "b", "l", "u", "e">>, 15792383>>,
    <<<<"a", "n", "t", "i", "q", "u", "e", "w", "h", "i", "t", "e">>, 16444375>>,
    <<<<"a", "q", "u", "a">>, 65535>>,
    <<<<"a", "q", "u", "a", "m", "a", "r", "i", "n", "e">>, 8388564>>,
    <<<<"a", "z", "u", "r", "e">>, 15794175>>,
    <<<<"b", "e", "i", "g", "e">>, 16119260>>,
    <<<<"b", "i", "s", "q", "u", "e">>, 16770244>>,
    <<<<"b", "l", "a", "c", "k">>, 0>>,
    <<<<"b", "l", "a", "n", "c", "h", "e", "d", "a", "l", "m", "o", "n", "d">>, 16772045>>,
    <<<<"b", "l", "u", "e">>, 255>>,
    <<<<"b", "l", "u", "e", "v", "i", "o", "l", "e", "t">>, 9055202>>,
    <<<<"b", "r", "o", "w", "n">>, 10824234>>,
    <<<<"b", "u", "r", "l", "y", "w", "o", "o", "d">>, 14596231>>,
    <<<<"c", "a", "d", "e", "t", "b", "l", "u", "e">>, 6266528>>,
    <<<<"c", "h", "a", "r", "t", "r", "e", "u", "s", "e">>, 8388352>>,
    <<<<"c", "h", "o", "c", "o", "l", "a", "t", "e">>, 13789470>>,
    <<<<"c", "o", "r", "a", "l">>, 16744272>>,
    <<<<"c", "o", "r", "n", "f", "l", "o", "w", "e", "r", "b", "l", "u", "e">>, 6591981>>,
    <<<<"c", "o", "r", "n", "s", "i", "l", "k">>, 16775388>>,
    <<<<"c", "r", "i", "m", "s", "o", "n">>, 14423100>>,
    <<<<"c", "y", "a", "n">>, 65535>>,
    <<<<"d", "a", "r", "k", "b", "l", "u", "e">>, 139>>,
    <<<<"d", "a", "r", "k", "c", "y", "a", "n">>, 35723>>,
    <<<<"d", "a", "r", "k", "g", "o", "l", "d", "e", "n", "r", "o", "d">>, 12092939>>,
    <<<<"d", "a", "r", "k", "g", "r", "a", "y">>, 11119017>>,
    <<<<"d", "a", "r", "k", "g", "r", "e", "e", "n">>, 25600>>,
    <<<<"d", "a", "r", "k", "g", "r", "e", "y">>, 11119017>>,
    <<<<"d", "a", "r", "k", "k", "h", "a", "k", "i">>, 12433259>>,
    <<<<"d", "a", "r", "k", "m", "a", "g", "e", "n", "t", "a">>, 9109643>>,
    <<<<"d", "a", "r", "k", "o", "l", "i", "v", "e", "g", "r", "e", "e", "n">>, 5597999>>,
    <<<<"d", "a", "r", "k", "o", "r", "a", "n", "g", "e">>, 16747520>>,
    <<<<"d", "a", "r", "k", "o", "r", "c", "h", "i", "d">>, 10040012>>,
    <<<<"d", "a", "r", "k", "r", "e", "d">>, 9109504>>,
    <<<<"d", "a", "r", "k", "s", "a", "l", "m", "o", "n">>, 15308410>>,
    <<<<"d", "a", "r", "k", "s", "e", "a", "g", "r", "e", "e", "n">>, 9419919>>,
    <<<<"d", "a", "r", "k", "s", "l", "a", "t", "e", "b", "l", "u", "e">>, 4734347>>,
    <<<<"d", "a", "r", "k", "s", "l", "a", "t", "e", "g", "r", "a", "y">>, 3100495>>,
    <<<<"d", "a", "r", "k", "s", "l", "a", "t", "e", "g", "r", "e", "y">>, 3100495>>,
    <<<<"d", "a", "r", "k", "t", "u", "r", "q", "u", "o", "i", "s", "e">>, 52945>>,
    <<<<"d", "a", "r", "k", "v", "i", "o", "l", "e", "t">>, 9699539>>,
    <<<<"d", "e", "e", "p", "p", "i", "n", "k">>, 16716947>>,
    <<<<"d", "e", "e", "p", "s", "k", "y", "b", "l", "u", "e">>, 49151>>,
    <<<<"d", "i", "m", "g", "r", "a", "y">>, 6908265>>,
    <<<<"d", "i", "m", "g", "r", "e", "y">>, 6908265>>,
    <<<<"d", "o", "d", "g", "e", "r", "b", "l", "u", "e">>, 2003199>>,
    <<<<"f", "i", "r", "e", "b", "r", "i", "c", "k">>, 11674146>>,
    <<<<"f", "l", "o", "r", "a", "l", "w", "h", "i", "t", "e">>, 16775920>>,
    <<<<"f", "o", "r", "e", "s", "t", "g", "r", "e", "e", "n">>, 2263842>>,
    <<<<"f", "u", "c", "h", "s", "i", "a">>, 16711935>>,
    <<<<"g", "a", "i", "n", "s", "b", "o", "r", "o">>, 14474460>>,
    <<<<"g", "h", "o", "s", "t", "w", "h", "i", "t", "e">>, 16316671>>,
    <<<<"g", "o", "l", "d">>, 16766720>>,
    <<<<"g", "o", "l", "d", "e", "n", "r", "o", "d">>, 14329120>>,
    <<<<"g", "r", "a", "y">>, 8421504>>,
    <<<<"g", "r", "e", "e", "n">>, 32768>>,
    <<<<"g", "r", "e", "e", "n", "y", "e", "l", "l", "o", "w">>, 11403055>>,
    <<<<"g", "r", "e", "y">>, 8421504>>,
    <<<<"h", "o", "n", "e", "y", "d", "e", "w">>, 15794160>>,
    <<<<"h", "o", "t", "p", "i", "n", "k">>, 16738740>>,
    <<<<"i", "n", "d", "i", "a", "n", "r", "e", "d">>, 13458524>>,
    <<<<"i", "n", "d", "i", "g", "o">>, 4915330>>,
    <<<<"i", "v", "o", "r", "y">>, 16777200>>,
    <<<<"k", "h", "a", "k", "i">>, 15787660>>,
    <<<<"l", "a", "v", "e", "n", "d", "e", "r">>, 15132410>>,
    <<<<"l", "a", "v", "e", "n", "d", "e", "r", "b", "l", "u", "s", "h">>, 16773365>>,
    <<<<"l", "a", "w", "n", "g", "r", "e", "e", "n">>, 8190976>>,
    <<<<"l", "e", "m", "o", "n", "c", "h", "i", "f", "f", "o", "n">>, 16775885>>,
    <<<<"l", "i", "g", "h", "t", "b", "l", "u", "e">>, 11393254>>,
    <<<<"l", "i", "g", "h", "t", "c", "o", "r", "a", "l">>, 15761536>>,
    <<<<"l", "i", "g", "h", "t", "c", "y", "a", "n">>, 14745599>>,
    <<<<"l", "i", "g", "h", "t", "g", "o", "l", "d", "e", "n", "r", "o", "d", "y", "e", "l", "l", "o", "w">>, 16448210>>,
    <<<<"l", "i", "g", "h", "t", "g", "r", "a", "y">>, 13882323>>,
    <<<<"l", "i", "g", "h", "t", "g", "r", "e", "e", "n">>, 9498256>>,
    <<<<"l", "i", "g", "h", "t", "g", "r", "e", "y">>, 13882323>>,
    <<<<"l", "i", "g", "h", "t", "p", "i", "n", "k">>, 16758465>>,
    <<<<"l", "i", "g", "h", "t", "s", "a", "l", "m", "o", "n">>, 16752762>>,
    <<<<"l", "i", "g", "h", "t", "s", "e", "a", "g", "r", "e", "e", "n">>, 2142890>>,
    <<<<"l", "i", "g", "h", "t", "s", "k", "y", "b", "l", "u", "e">>, 8900346>>,
    <<<<"l", "i", "g", "h", "t", "s", "l", "a", "t", "e", "g", "r", "a", "y">>, 7833753>>,
    <<<<"l", "i", "g", "h", "t", "s", "l", "a", "t", "e", "g", "r", "e", "y">>, 7833753>>,
    <<<<"l", "i", "g", "h", "t", "s", "t", "e", "e", "l", "b", "l", "u", "e">>, 11584734>>,
    <<<<"l", "i", "g", "h", "t", "y", "e", "l", "l", "o", "w">>, 16777184>>,
    <<<<"l", "i", "m", "e">>, 65280>>,
    <<<<"l", "i", "m", "e", "g", "r", "e", "e", "n">>, 3329330>>,
    <<<<"l", "i", "n", "e", "n">>, 16445670>>,
    <<<<"m", "a", "g", "e", "n", "t", "a">>, 16711935>>,
    <<<<"m", "a", "r", "o", "o", "n">>, 8388608>>,
    <<<<"m", "e", "d", "i", "u", "m", "a", "q", "u", "a", "m", "a", "r", "i", "n", "e">>, 6737322>>,
    <<<<"m", "e", "d", "i", "u", "m", "b", "l", "u", "e">>, 205>>,
    <<<<"m", "e", "d", "i", "u", "m", "o", "r", "c", "h", "i", "d">>, 12211667>>,
    <<<<"m", "e", "d", "i", "u", "m", "p", "u", "r", "p", "l", "e">>, 9662683>>,
    <<<<"m", "e", "d", "i", "u", "m", "s", "e", "a", "g", "r", "e", "e", "n">>, 3978097>>,
    <<<<"m", "e", "d", "i", "u", "m", "s", "l", "a", "t", "e", "b", "l", "u", "e">>, 8087790>>,
    <<<<"m", "e", "d", "i", "u", "m", "s", "p", "r", "i", "n", "g", "g", "r", "e", "e", "n">>, 64154>>,
    <<<<"m", "e", "d", "i", "u", "m", "t", "u", "r", "q", "u", "o", "i", "s", "e">>, 4772300>>,
    <<<<"m", "e", "d", "i", "u", "m", "v", "i", "o", "l", "e", "t", "r", "e", "d">>, 13047173>>,
    <<<<"m", "i", "d", "n", "i", "g", "h", "t", "b", "l", "u", "e">>, 1644912>>,
    <<<<"m", "i", "n", "t", "c", "r", "e", "a", "m">>, 16121850>>,
    <<<<"m", "i", "s", "t", "y", "r", "o", "s", "e">>, 16770273>>,
    <<<<"m", "o", "c", "c", "a", "s", "i", "n">>, 16770229>>,
    <<<<"n", "a", "v", "a", "j", "o", "w", "h", "i", "t", "e">>, 16768685>>,
    <<<<"n", "a", "v", "y">>, 128>>,
    <<<<"o", "l", "d", "l", "a", "c", "e">>, 16643558>>,
    <<<<"o", "l", "i", "v", "e">>, 8421376>>,
    <<<<"o", "l", "i", "v", "e", "d", "r", "a", "b">>, 7048739>>,
    <<<<"o", "r", "a", "n", "g", "e">>, 16753920>>,
    <<<<"o", "r", "a", "n", "g", "e", "r", "e", "d">>, 16729344>>,
    <<<<"o", "r", "c", "h", "i", "d">>, 14315734>>,
    <<<<"p", "a", "l", "e", "g", "o", "l", "d", "e", "n", "r", "o", "d">>, 15657130>>,
    <<<<"p", "a", "l", "e", "g", "r", "e", "e", "n">>, 10025880>>,
    <<<<"p", "a", "l", "e", "t", "u", "r", "q", "u", "o", "i", "s", "e">>, 11529966>>,
    <<<<"p", "a", "l", "e", "v", "i", "o", "l", "e", "t", "r", "e", "d">>, 14381203>>,
    <<<<"p", "a", "p", "a", "y", "a", "w", "h", "i", "p">>, 16773077>>,
    <<<<"p", "e", "a", "c", "h", "p", "u", "f", "f">>, 16767673>>,
    <<<<"p", "e", "r", "u">>, 13468991>>,
    <<<<"p", "i", "n", "k">>, 16761035>>,
    <<<<"p", "l", "u", "m">>, 14524637>>,
    <<<<"p", "o", "w", "d", "e", "r", "b", "l", "u", "e">>, 11591910>>,
    <<<<"p", "u", "r", "p", "l", "e">>, 8388736>>,
    <<<<"r", "e", "b", "e", "c", "c", "a", "p", "u", "r", "p", "l", "e">>, 6697881>>,
    <<<<"r", "e", "d">>, 16711680>>,
    <<<<"r", "o", "s", "y", "b", "r", "o", "w", "n">>, 12357519>>,
    <<<<"r", "o", "y", "a", "l", "b", "l", "u", "e">>, 4286945>>,
    <<<<"s", "a", "d", "d", "l", "e", "b", "r", "o", "w", "n">>, 9127187>>,
    <<<<"s", "a", "l", "m", "o", "n">>, 16416882>>,
    <<<<"s", "a", "n", "d", "y", "b", "r", "o", "w", "n">>, 16032864>>,
    <<<<"s", "e", "a", "g", "r", "e", "e", "n">>, 3050327>>,
    <<<<"s", "e", "a", "s", "h", "e", "l", "l">>, 16774638>>,
    <<<<"s", "i", "e", "n", "n", "a">>, 10506797>>,
    <<<<"s", "i", "l", "v", "e", "r">>, 12632256>>,
    <<<<"s", "k", "y", "b", "l", "u", "e">>, 8900331>>,
    <<<<"s", "l", "a", "t", "e", "b", "l", "u", "e">>, 6970061>>,
    <<<<"s", "l", "a", "t", "e", "g", "r", "a", "y">>, 7372944>>,
    <<<<"s", "l", "a", "t", "e", "g", "r", "e", "y">>, 7372944>>,
    <<<<"s", "n", "o", "w">>, 16775930>>,
    <<<<"s", "p", "r", "i", "n", "g", "g", "r", "e", "e", "n">>, 65407>>,
    <<<<"s", "t", "e", "e", "l", "b", "l", "u", "e">>, 4620980>>,
    <<<<"t", "a", "n">>, 13808780>>,
    <<<<"t", "e", "a", "l">>, 32896>>,
    <<<<"t", "h", "i", "s", "t", "l", "e">>, 14204888>>,
    <<<<"t", "o", "m", "a", "t", "o">>, 16737095>>,
    <<<<"t", "u", "r", "q", "u", "o", "i", "s", "e">>, 4251856>>,
    <<<<"v", "i", "o", "l", "e", "t">>, 15631086>>,
    <<<<"w", "h", "e", "a", "t">>, 16113331>>,
    <<<<"w", "h", "i", "t", "e">>, 16777215>>,
    <<<<"w", "h", "i", "t", "e", "s", "m", "o", "k", "e">>, 16119285>>,
    <<<<"y", "e", "l", "l", "o", "w">>, 16776960>>,
    <<<<"y", "e", "l", "l", "o", "w", "g", "r", "e", "e", "n">>, 10145074>> >>

\* What one group of d3-color's patterns makes of the lower-case text s:
\* whether s matches the pattern re, and the number the matched text (for
\* "reP" the text before the "%") converts to where the code does arithmetic
\* on it.
\*   "reI"  [+-]?\d+
\*   "reN"  [+-]?(?:\d*\.)?\d+(?:[eE][+-]?\d+)?
\*   "reP"  reN followed by "%"
Group(s, re) ==
    LET digits(t) == t # <<>> /\ \A i \in 1..Len(t) : IsDigit(t[i])
        \* p: the mantissa split at "."
        isMantissa(p) ==
            \/ Len(p) = 1 /\ digits(p[1])
            \/ Len(p) = 2 /\ (p[1] = <<>> \/ digits(p[1])) /\ digits(p[2])
        \* parts: the unsigned text split at "e"
        isUnsigned(parts) ==
            /\ Len(parts) \in {1, 2}
            /\ isMantissa(Split(parts[1], "."))
            /\ Len(parts) = 2 => digits(Unsigned(parts[2]))
        \* t: the text without the "%" of "reP"
        matches(t) ==
            /\ re = "reP" => s # <<>> /\ s[Len(s)] = "%"
            /\ IF re = "reI" THEN digits(Unsigned(t))
               ELSE isUnsigned(Split(Unsigned(t), "e"))
        text == IF re = "reP" THEN SubSeq(s, 1, Len(s) - 1) ELSE s
    IN  [match |-> matches(text), value |-> IF matches(text) THEN NumberOf(text) ELSE NaN]

Null == [null |-> TRUE]

\* new Rgb(r, g, b, opacity), new Hsl(h, s, l, opacity)
Rgb(r, g, b, opacity) == [r |-> r, g |-> g, b |-> b, opacity |-> opacity]
Hsl(h, s, l, opacity) == [h |-> h, s |-> s, l |-> l, opacity |-> opacity]

\* a <= 0
AtMost0(a) == ~IsNaN(a) /\ (a = Zero \/ a.sign < 0)

\* rgbn(n)
Rgbn(n) == Rgb(Num((n \div 65536) % 256), Num((n \div 256) % 256), Num(n % 256), Num(1))

\* rgba(r, g, b, a)
Rgba(r, g, b, a) == IF AtMost0(a) THEN Rgb(NaN, NaN, NaN, a) ELSE Rgb(r, g, b, a)

\* hsla(h, s, l, a)
Hsla(h, s, l, a) ==
    IF AtMost0(a) THEN Hsl(NaN, NaN, NaN, a)
    ELSE IF AtMost0(l) \/ (~IsNaN(l) /\ ~DLess(l, Num(1))) THEN Hsl(NaN, NaN, l, a)
    ELSE IF AtMost0(s) THEN Hsl(NaN, s, l, a)
    ELSE Hsl(h, s, l, a)

\* The colour of "#rgb", "#rrggbb", "#rgba" and "#rrggbbaa": b holds the
\* three or four bytes; without a fourth the opacity is 1.
ColorOfBytes(b) ==
    Rgba(b[1], b[2], b[3], IF Len(b) = 3 THEN Num(1) ELSE DDiv(b[4], Num(255)))

\* The bytes of the hexadecimal digits f[2], f[3], ...: each of two digits,
\* or of one digit doubled when there are three or four.  The bit operations
\* on parseInt(m[1], 16) are applied digit by digit.
BytesOfHex(f) ==
    [k \in 1..((Len(f) - 1) \div (IF Len(f) > 5 THEN 2 ELSE 1)) |->
        Num(IF Len(f) > 5 THEN 16 * HexVal(f[2 * k]) + HexVal(f[2 * k + 1])
            ELSE 17 * HexVal(f[k + 1]))]

\* The pattern of the group at i of the groups a: the channels of rgb are
\* all "reI" or all "reP", those of hsl "reN", "reP", "reP"; the opacity is
\* "reN".
PatternAt(a, isHsl, i) ==
    IF i = 4 \/ (isHsl /\ i = 1) THEN "reN"
    ELSE IF isHsl \/ (a[1] # <<>> /\ a[1][Len(a[1])] = "%") THEN "reP"
    ELSE "reI"

\* The colour of the groups g of the patterns re: null unless all match;
\* a group m of "reP" stands for m * 255 / 100 in rgb and for m / 100 in hsl.
ColorOfGroups(isHsl, re, g) ==
    LET v == [i \in 1..3 |->
                 IF re[i] # "reP" THEN g[i].value
                 ELSE DDiv(IF isHsl THEN g[i].value ELSE DMul(g[i].value, Num(255)),
                           Num(100))]
        a == IF Len(g) = 3 THEN Num(1) ELSE g[4].value
    IN  IF \E i \in 1..Len(g) : ~g[i].match THEN Null
        ELSE IF isHsl THEN Hsla(v[1], v[2], v[3], a)
        ELSE Rgba(v[1], v[2], v[3], a)

\* The colour of the format fn(a[1], a[2], ...), each a[i] without the white
\* space the patterns allow around it.
ColorOfFunction(fn, a) ==
    IF \/ fn \in {<<"r", "g", "b">>, <<"h", "s", "l">>} /\ Len(a) = 3
       \/ fn \in {<<"r", "g", "b", "a">>, <<"h", "s", "l", "a">>} /\ Len(a) = 4
    THEN ColorOfGroups(fn[1] = "h",
                       [i \in 1..Len(a) |-> PatternAt(a, fn[1] = "h", i)],
                       [i \in 1..Len(a) |-> Group(a[i], PatternAt(a, fn[1] = "h", i))])
    ELSE Null

\* The place of the first "(" in f, 0 without one.
OpenAt(f) ==
    IF \E k \in 1..Len(f) : f[k] = "("
    THEN CHOOSE k \in 1..Len(f) : f[k] = "(" /\ \A j \in 1..(k - 1) : f[j] # "("
    ELSE 0

\* The colour of the trimmed, lower-case format f.
ColorOf(f) ==
    IF Len(f) \in 4..9 /\ f[1] = "#" /\ \A i \in 2..Len(f) : IsHex(f[i])
    THEN (IF Len(f) \in {4, 5, 7, 9} THEN ColorOfBytes(BytesOfHex(f)) ELSE Null)
    ELSE IF \E k \in 1..Len(named) : named[k][1] = f
    THEN Rgbn(named[CHOOSE k \in 1..Len(named) : named[k][1] = f][2])
    ELSE IF f = <<"t", "r", "a", "n", "s", "p", "a", "r", "e", "n", "t">>
    THEN Rgb(NaN, NaN, NaN, Zero)
    ELSE IF OpenAt(f) = 0 \/ f[Len(f)] # ")" THEN Null
    ELSE ColorOfFunction(SubSeq(f, 1, OpenAt(f) - 1),
                         MapTrim(Split(SubSeq(f, OpenAt(f) + 1, Len(f) - 1), ",")))

\* d3.color(format): null, an Rgb {r, g, b, opacity} or an Hsl {h, s, l,
\* opacity}, of format.trim().toLowerCase().
D3Color(format) == ColorOf([i \in 1..Len(Trim(format)) |-> LowerChar(Trim(format)[i])])

\* The double 0.5.
Half == Finite(1, <<1>>, 0 - 1)

\* Math.min and Math.max of the three numbers c: NaN when one of them is.
MathMin(c) ==
    IF \E k \in 1..3 : IsNaN(c[k]) THEN NaN
    ELSE c[CHOOSE k \in 1..3 : \A j \in 1..3 : ~DLess(c[j], c[k])]
MathMax(c) ==
    IF \E k \in 1..3 : IsNaN(c[k]) THEN NaN
    ELSE c[CHOOSE k \in 1..3 : \A j \in 1..3 : ~DLess(c[k], c[j])]

\* hslConvert, from the channels over 255 on: s is max - min at first, and l
\* is (max + min) / 2.
HslOf(r, g, b, min, max, s, l, opacity) ==
    IF ~IsNaN(s) /\ s # Zero
    THEN Hsl(DMul(DAdd(DDiv(DSub(IF r = max THEN g ELSE IF g = max THEN b ELSE r,
                                 IF r = max THEN b ELSE IF g = max THEN r ELSE g),
                            s),
                       Num(IF r = max THEN (IF DLess(g, b) THEN 6 ELSE 0)
                           ELSE IF g = max THEN 2 ELSE 4)),
                  Num(60)),
             DDiv(s, DAdd(IF DLess(l, Half) THEN max ELSE DSub(Num(2), max),
                          IF DLess(l, Half) THEN min ELSE DNeg(min))),
             l, opacity)
    ELSE Hsl(NaN,
             IF ~IsNaN(l) /\ l # Zero /\ l.sign > 0 /\ DLess(l, Num(1)) THEN Zero ELSE NaN,
             l, opacity)

\* hslConvert of the channels c, each over 255.
HslConvert(c, opacity) ==
    HslOf(c[1], c[2], c[3], MathMin(c), MathMax(c), DSub(MathMax(c), MathMin(c)),
          DDiv(DAdd(MathMax(c), MathMin(c)), Num(2)), opacity)

\* d3.hsl(color): hslConvert, a copy of an Hsl or the conversion of an Rgb.
D3Hsl(o) ==
    IF "h" \in DOMAIN o THEN o
    ELSE HslConvert([k \in 1..3 |-> DDiv(<<o.r, o.g, o.b>>[k], Num(255))], o.opacity)

\* hsl2rgb(h, m1, m2) of d3-color.
Hsl2Rgb(h, m1, m2) ==
    DMul(IF DLess(h, Num(60)) \/ (~DLess(h, Num(180)) /\ DLess(h, Num(240)))
         THEN DAdd(m1, DDiv(DMul(DSub(m2, m1),
                                 IF DLess(h, Num(60)) THEN h ELSE DSub(Num(240), h)),
                            Num(60)))
         ELSE IF DLess(h, Num(180)) THEN m2
         ELSE m1,
         Num(255))

\* The hue of a channel: h >= 240 ? h - 240 : h + 120 for r, h for g and
\* h < 120 ? h + 240 : h - 120 for b.
HueOf(h, channel) ==
    IF channel = "g" THEN h
    ELSE DAdd(h, Num(IF channel = "r"
                     THEN (IF IsNaN(h) \/ DLess(h, Num(240)) THEN 120 ELSE 0 - 240)
                     ELSE (IF DLess(h, Num(120)) THEN 240 ELSE 0 - 120)))

\* Hsl.rgb(), from m2 on
RgbOf(h, l, m2) ==
    [channel \in {"r", "g", "b"} |->
        Hsl2Rgb(HueOf(h, channel), DSub(DMul(Num(2), l), m2), m2)]

\* Hsl.rgb(), from h on
RgbOfHue(h, s, l) ==
    RgbOf(h, l, DAdd(l, DMul(IF DLess(l, Half) THEN l ELSE DSub(Num(1), l),
                             IF IsNaN(h) \/ IsNaN(s) THEN Zero ELSE s)))

\* Hsl.rgb()
HslToRgb(c) ==
    RgbOfHue(DAdd(DMod(c.h, 360), IF DLess(c.h, Zero) THEN Num(360) ELSE Zero), c.s, c.l)

\* clampi(value): Math.max(0, Math.min(255, Math.round(value) || 0))
Clampi(x) ==
    IF IsNaN(x) \/ x.sign < 0 THEN 0
    ELSE IF ~DLess(x, Num(255)) THEN 255
    ELSE DRound(x)

\* hex(value): two lower-case hexadecimal digits.
Hex2(v) == <<HexChars[(v \div 16) + 1], HexChars[(v % 16) + 1]>>

\* Rgb.formatHex()
RgbFormatHex(rgb) ==
    <<"#">> \o Hex2(Clampi(rgb.r)) \o Hex2(Clampi(rgb.g)) \o Hex2(Clampi(rgb.b))

\* color.formatHex() of an Hsl
FormatHex(c) == RgbFormatHex(HslToRgb(c))

\* The literals 0.55 and 0.2 of the range.
RangeFrom == DoubleOf(1, <<55>>, <<100>>, 0)
RangeTo == DoubleOf(1, <<2>>, <<10>>, 0)

\* interpolateNumber(a, b) at t: a * (1 - t) + b * t
InterpolateNumber(a, b, t) == DAdd(DMul(a, DSub(Num(1), t)), DMul(b, t))

\* Faulty variant: the domain is [0, n] instead of [0, n - 1].
LightnessScaleDomainOff(n, i) ==
    InterpolateNumber(RangeFrom, RangeTo, IF n = 0 THEN Half ELSE DDiv(Num(i), Num(n)))

\* d3.scaleLinear().domain([0, n - 1]).range([0.55, 0.2]) at i: normalize is
\* (x - a) / (b - a), or the constant 0.5 when the domain is one point.
LightnessScale(n, i) ==
    InterpolateNumber(RangeFrom, RangeTo, IF n - 1 = 0 THEN Half ELSE DDiv(Num(i), Num(n - 1)))

\* Faulty variant: one entry short.
ArrayFillShort(n, v) == [i \in 1..(n - 1) |-> v]

\* Array(n).fill(v)
ArrayFill(n, v) == [i \in 1..n |-> v]

\* The loop of generateScale, on indices 0..n-1.
ScaleLoop(hsl, n) ==
    [i \in 1..n |-> FormatHex([h |-> hsl.h, s |-> hsl.s, l |-> LightnessScale(n, i - 1)])]

\* generateScale from the parsed colour on.
ScaleOf(color, base, n) ==
    IF color = Null THEN ArrayFill(n, base)
    ELSE ScaleLoop(D3Hsl(color), n)

GenerateScale(base, n) == ScaleOf(D3Color(base), base, n)

MaxSteps == 5

BaseColors == {
    <<"#", "4", "F", "5", "8", "7", "0">>,
    <<"#", "E", "5", "D", "D", "F", "F">>,
    <<"#", "8", "0", "8", "0", "8", "0">>,
    <<"#", "0", "0", "0", "0", "0", "0">>,
    <<"#", "f", "0", "0">>,
    <<"#", "3", "a", "7">>,
    <<"n", "o", "t", "-", "a", "-", "c", "o", "l", "o", "r">>,
    <<"#", "1", "2">>,
    <<"#", "g", "g", "g", "g", "g", "g">>,
    <<"#", "f", "0", "0", "f">>,
    <<"#", "f", "f", "0", "0", "0", "0", "8", "0">>,
    <<"#", "4", "F", "5", "8", "7", "0", "0", "0">>,
    <<"r", "e", "d">>,
    <<"R", "e", "b", "e", "c", "c", "a", "P", "u", "r", "p", "l", "e">>,
    <<"t", "r", "a", "n", "s", "p", "a", "r", "e", "n", "t">>,
    <<"r", "g", "b", "(", "2", "5", "5", ",", " ", "0", ",", " ", "0", ")">>,
    <<"r", "g", "b", "(", "3", "0", "0", ",", "0", ",", "0", ")">>,
    <<"r", "g", "b", "(", "5", "0", "%", ",", "0", "%", ",", "1", "0", "0", "%", ")">>,
    <<"r", "g", "b", "a", "(", "0", ",", "1", "2", "8", ",", "2", "5", "5", ",", ".", "5", ")">>,
    <<"h", "s", "l", "(", "1", "2", "0", ",", "5", "0", "%", ",", "2", "5", "%", ")">>,
    <<"h", "s", "l", "a", "(", "-", "3", "0", ",", "1", "0", "0", "%", ",", "2", "5", "%", ",", "1", "e", "0", ")">>,
    <<"h", "s", "l", "(", "0", ",", "1", "5", "0", "%", ",", "5", "0", "%", ")">>,
    <<"#", "1", "2", "3", "4", "5">>,
    <<"r", "g", "b", "(", "1", ",", "2", ")">>,
    <<>> }

InitScale ==
    /\ baseColor \in BaseColors
    /\ steps \in 0..MaxSteps
    /\ palette = <<>>
    /\ pc = "call"
    /\ IdleParse /\ IdleChart /\ IdleLabel /\ InitApp /\ IdleStore

\* const palette = generateScale(baseColor, steps)
Generate ==
    /\ pc = "call"
    /\ palette' = GenerateScale(baseColor, steps)
    /\ pc' = "done"
    /\ UNCHANGED <<baseColor, steps, parseVars, chartVars, appVars, labelVars>>

NextScale == Generate

SpecScale == InitScale /\ [][NextScale]_vars

(***************************************************************************)
(* The handlers of the application shell.  Each is guarded by the          *)
(* condition under which the JSX renders (and enables) its control, and    *)
(* takes its input from the small sets below.                              *)
(***************************************************************************)
MaxOps == 4
MaxRows == 5

TitleInputs == {<<"T">>}
ColorInputs == {<<"#", "f", "f", "0", "0", "0", "0">>}
NoteInputs == {<<"n">>}
CategoryInputs == {<<"Z">>}
\* What an <input type="number"> delivers: "" or a valid number.
NumberInputs == {<<>>, <<"-", "3">>, <<"1", ".", "5">>}
ImportTexts == {
    <<",", "X", ",", "1", "0", ",", "2", "0", "\n", ",", "Y", ",", "5", ",", "1", "5">>,
    <<"c", ",", "A", ",", "B", "\n", "X", ",", "-", "5", ",", "1", "0">>,
    <<"c", ",", "A", ",", "B", "\n", "X", ",", "1", "0", "%", ",", "2", "0", "%", "\n",
      "Y", ",", ".", "5", ",", "1", "e", "3">>,
    <<"c", ",", "A", ",", "B">>,
    <<"c", ",", "A", ",", "B", "\n", "X", ",", "I", "n", "f", "i", "n", "i", "t", "y",
      ",", "5">>,
    <<" ">> }

(***************************************************************************)
(* localStorage and JSON.  The item 'brandChartConfig' is absent (getItem  *)
(* returns null) or a string, held as what the string denotes: the empty   *)
(* string, a text that is not JSON, the JSON null, a JSON number, string   *)
(* or boolean, a JSON array, or a JSON object with its fields.  Strings    *)
(* and booleans denote themselves; a number slot holds a number or null.   *)
(***************************************************************************)
Absent == [kind |-> "absent"]
EmptyText == [kind |-> "empty"]
NotJson == [kind |-> "not json"]
JsonNullText == [kind |-> "null"]
JsonPrimitive == [kind |-> "primitive"]
JsonArray == [kind |-> "array"]
JsonObject(fields) == [kind |-> "object", fields |-> fields]

\* null in a number slot.
NullNumber == [cls |-> "null", sign |-> 1, mant |-> <<>>, exp |-> 0]

\* JSON.stringify of a number: a number that is not finite is written null.
\* A finite number is written with the digits that read back as itself.
JsonNumber(x) == IF IsFinite(x) THEN x ELSE NullNumber

\* JSON.stringify of a row
JsonRow(row) ==
    [category |-> row.category, metric1 |-> JsonNumber(row.metric1),
     metric2 |-> JsonNumber(row.metric2)]

\* JSON.stringify({labels, data, color1, ...}), as the object the text denotes
JsonStringify(o) ==
    JsonObject([o EXCEPT !.data = [k \in 1..Len(o.data) |-> JsonRow(o.data[k])]])

\* The object the save effect serializes.
SavedState ==
    [labels |-> labels, data |-> data, color1 |-> color1, color2 |-> color2,
     darkMode |-> darkMode, noteMode |-> noteMode, sharedNote |-> sharedNote,
     note1 |-> note1, note2 |-> note2]

\* The save effect.  It runs after a render in which one of its nine
\* dependencies changed, and writes the whole state.
SaveEffect ==
    storage' = IF SavedState' # SavedState THEN JsonStringify(SavedState') ELSE storage

\* The fields of a parsed object that the load effect applies: labels,
\* data, color1, color2 and noteMode when truthy (an object and an array
\* are, a string is unless empty), the others when not undefined.
Applied(fields) ==
    {k \in DOMAIN fields :
        \/ k \in {"labels", "data", "darkMode", "sharedNote", "note1", "note2"}
        \/ k \in {"color1", "color2"} /\ fields[k] # <<>>
        \/ k = "noteMode" /\ fields[k] # ""}

NoUpdates == <<>>

\* Faulty variant: the catch block empties the dataset.
QueuedClearsOnError(saved) ==
    IF saved.kind = "object"
    THEN [k \in Applied(saved.fields) |-> saved.fields[k]]
    ELSE IF saved.kind \in {"not json", "null"} THEN [data |-> <<>>]
    ELSE NoUpdates

\* The state updates the load effect queues for the item it read: none when
\* the item is absent or empty (if (savedConfig)), none when JSON.parse
\* throws or the value is null (reading parsed.labels throws; both are
\* caught), none for a number, string, boolean or array (every property
\* read is undefined), and the applied fields of an object.
Queued(saved) ==
    IF saved.kind = "object"
    THEN [k \in Applied(saved.fields) |-> saved.fields[k]]
    ELSE NoUpdates

Unread == [kind |-> "unread"]
NoRestart == [restarted |-> FALSE]

\* The value of a state field after the queued updates are applied.
After(updates, field, current) ==
    IF field \in DOMAIN updates THEN updates[field] ELSE current

\* The mount of App: the first render has used the useState initial values;
\* the effects run in order, the load effect (1) and then the save effect
\* (2), which serializes the state of that first render.
MountEffects ==
    /\ phase = "mount"
    /\ savedConfig' = storage
    /\ pending' = Queued(storage)
    /\ storage' = JsonStringify(SavedState)
    /\ phase' = "loaded"
    /\ UNCHANGED <<labels, data, color1, color2, darkMode, showImport, importText,
                   noteVars, nOps, confirmAnswer, beforeRestart>>
    /\ UNCHANGED <<parseVars, scaleVars, chartVars, pc, labelVars>>

\* The render that follows the mount: the queued updates are applied and the
\* save effect runs again when a dependency changed.
Rerender ==
    /\ phase = "loaded"
    /\ labels' = After(pending, "labels", labels)
    /\ data' = After(pending, "data", data)
    /\ color1' = After(pending, "color1", color1)
    /\ color2' = After(pending, "color2", color2)
    /\ darkMode' = After(pending, "darkMode", darkMode)
    /\ noteMode' = After(pending, "noteMode", noteMode)
    /\ sharedNote' = After(pending, "sharedNote", sharedNote)
    /\ note1' = After(pending, "note1", note1)
    /\ note2' = After(pending, "note2", note2)
    /\ pending' = NoUpdates
    /\ phase' = "ready"
    /\ SaveEffect
    /\ UNCHANGED <<showImport, importText, nOps, confirmAnswer, savedConfig,
                   beforeRestart>>
    /\ UNCHANGED <<parseVars, scaleVars, chartVars, pc, labelVars>>

\* The page is reloaded: the component is constructed anew (the useState
\* initial values), localStorage is kept.
Restart ==
    /\ phase = "ready"
    /\ nOps < MaxOps
    /\ nOps' = nOps + 1
    /\ beforeRestart' = SavedState
    /\ labels' = DEFAULT_LABELS
    /\ data' = DEFAULT_DATA
    /\ color1' = DEFAULT_COLOR_1
    /\ color2' = DEFAULT_COLOR_2
    /\ darkMode' = FALSE
    /\ showImport' = FALSE
    /\ importText' = <<>>
    /\ noteMode' = "shared"
    /\ sharedNote' = <<>>
    /\ note1' = <<>>
    /\ note2' = <<>>
    /\ phase' = "mount"
    /\ pending' = NoUpdates
    /\ savedConfig' = Unread
    /\ confirmAnswer' = "none"
    /\ UNCHANGED storage
    /\ UNCHANGED <<parseVars, scaleVars, chartVars, pc, labelVars>>

\* One event handled, once the component is mounted (the components
\* studied on their own stay at rest); answer is what confirm returned.
Event(answer) ==
    /\ phase = "ready"
    /\ nOps < MaxOps
    /\ nOps' = nOps + 1
    /\ confirmAnswer' = answer
    /\ savedConfig' = Unread
    /\ beforeRestart' = NoRestart
    /\ UNCHANGED <<phase, pending>>
    /\ UNCHANGED <<parseVars, scaleVars, chartVars, pc, labelVars>>

\* An event whose handler shows no dialog.
Step == Event("none")

\* onClick={() => setDarkMode(!darkMode)}
ToggleDarkMode ==
    /\ Step
    /\ darkMode' = ~darkMode
    /\ UNCHANGED <<labels, data, color1, color2, showImport, importText, noteVars>>
    /\ SaveEffect

\* onChange={(e) => setColor1(e.target.value)}
SetColor1 ==
    /\ Step
    /\ \E v \in ColorInputs : color1' = v
    /\ UNCHANGED <<labels, data, color2, darkMode, showImport, importText, noteVars>>
    /\ SaveEffect

\* onChange={(e) => setColor2(e.target.value)}
SetColor2 ==
    /\ Step
    /\ \E v \in ColorInputs : color2' = v
    /\ UNCHANGED <<labels, data, color1, darkMode, showImport, importText, noteVars>>
    /\ SaveEffect

\* onChange={(e) => setLabels({...labels, title1: e.target.value})}
SetTitle1 ==
    /\ Step
    /\ \E v \in TitleInputs : labels' = [labels EXCEPT !.title1 = v]
    /\ UNCHANGED <<data, color1, color2, darkMode, showImport, importText, noteVars>>
    /\ SaveEffect

\* onChange={(e) => setLabels({...labels, title2: e.target.value})}
SetTitle2 ==
    /\ Step
    /\ \E v \in TitleInputs : labels' = [labels EXCEPT !.title2 = v]
    /\ UNCHANGED <<data, color1, color2, darkMode, showImport, importText, noteVars>>
    /\ SaveEffect

\* onClick={() => setShowImport(!showImport)}
ToggleShowImport ==
    /\ Step
    /\ showImport' = ~showImport
    /\ UNCHANGED <<labels, data, color1, color2, darkMode, importText, noteVars>>
    /\ SaveEffect

\* onChange={(e) => setImportText(e.target.value)}, on the import panel
SetImportText ==
    /\ Step
    /\ showImport
    /\ \E v \in ImportTexts : importText' = v
    /\ UNCHANGED <<labels, data, color1, color2, darkMode, showImport, noteVars>>
    /\ SaveEffect

\* Faulty variant: the parsed rows are appended to the current rows.
HandleImportMerges ==
    /\ Step
    /\ showImport
    /\ Trim(importText) # <<>>
    /\ LET p == ParseCSV(importText)
       IN  /\ labels' = [title1 |-> p.title1, title2 |-> p.title2]
           /\ data' = data \o p.data
    /\ showImport' = FALSE
    /\ importText' = <<>>
    /\ UNCHANGED <<color1, color2, darkMode, noteVars>>
    /\ SaveEffect

\* handleImport; its button is disabled while importText.trim() is empty
HandleImport ==
    /\ Step
    /\ showImport
    /\ Trim(importText) # <<>>
    /\ LET p == ParseCSV(importText)
       IN  /\ labels' = [title1 |-> p.title1, title2 |-> p.title2]
           /\ data' = p.data
    /\ showImport' = FALSE
    /\ importText' = <<>>
    /\ UNCHANGED <<color1, color2, darkMode, noteVars>>
    /\ SaveEffect

\* The value handleDataChange stores: value for the category, Number(value)
\* for metric1 and metric2.
FieldValue(field, value) == IF field = "category" THEN value ELSE NumberOf(value)

\* newData[index] = { ...newData[index], [field]: v }, v the value stored;
\* index is 1-based here.
ChangedData(rows, index, field, v) == [rows EXCEPT ![index][field] = v]

\* handleDataChange(idx, field, e.target.value), on the row editor
HandleDataChange ==
    /\ Step
    /\ ~showImport
    /\ \E field \in {"category", "metric1", "metric2"} :
           \E value \in (IF field = "category" THEN CategoryInputs ELSE NumberInputs) :
               LET v == FieldValue(field, value)
               IN  /\ field # "category" => ~IsNaN(v)
                   /\ \E index \in 1..Len(data) :
                          data' = ChangedData(data, index, field, v)
    /\ UNCHANGED <<labels, color1, color2, darkMode, showImport, importText, noteVars>>
    /\ SaveEffect

\* addRow
AddRow ==
    /\ Step
    /\ ~showImport
    /\ Len(data) < MaxRows
    /\ data' = Append(data, [category |-> NewCategory, metric1 |-> Num(10), metric2 |-> Num(10)])
    /\ UNCHANGED <<labels, color1, color2, darkMode, showImport, importText, noteVars>>
    /\ SaveEffect

\* data.filter((_, i) => i !== index), index 1-based here
WithoutRow(rows, index) ==
    [i \in 1..(Len(rows) - 1) |-> IF i < index THEN rows[i] ELSE rows[i + 1]]

\* removeRow(idx)
RemoveRow ==
    /\ Step
    /\ ~showImport
    /\ \E index \in 1..Len(data) : data' = WithoutRow(data, index)
    /\ UNCHANGED <<labels, color1, color2, darkMode, showImport, importText, noteVars>>
    /\ SaveEffect

\* Faulty variant: the reset also switches dark mode off.
ResetAlsoDarkMode ==
    /\ Event("yes")
    /\ labels' = DEFAULT_LABELS
    /\ data' = DEFAULT_DATA
    /\ color1' = DEFAULT_COLOR_1
    /\ color2' = DEFAULT_COLOR_2
    /\ darkMode' = FALSE
    /\ noteMode' = "shared"
    /\ sharedNote' = <<>>
    /\ note1' = <<>>
    /\ note2' = <<>>
    /\ UNCHANGED <<showImport, importText>>
    /\ SaveEffect

\* resetDefaults, the user confirming
ResetConfirmed ==
    /\ Event("yes")
    /\ labels' = DEFAULT_LABELS
    /\ data' = DEFAULT_DATA
    /\ color1' = DEFAULT_COLOR_1
    /\ color2' = DEFAULT_COLOR_2
    /\ noteMode' = "shared"
    /\ sharedNote' = <<>>
    /\ note1' = <<>>
    /\ note2' = <<>>
    /\ UNCHANGED <<darkMode, showImport, importText>>
    /\ SaveEffect

\* resetDefaults, the user declining
ResetDeclined ==
    /\ Event("no")
    /\ UNCHANGED <<labels, data, color1, color2, darkMode, showImport, importText,
                   noteVars>>
    /\ SaveEffect

\* onClick={() => setNoteMode('shared')} / setNoteMode('individual')
SetNoteMode ==
    /\ Step
    /\ \E m \in {"shared", "individual"} : noteMode' = m
    /\ UNCHANGED <<labels, data, color1, color2, darkMode, showImport, importText,
                   sharedNote, note1, note2>>
    /\ SaveEffect

\* onChange={(e) => setSharedNote(e.target.value)}, shown in shared mode
SetSharedNote ==
    /\ Step
    /\ noteMode = "shared"
    /\ \E v \in NoteInputs : sharedNote' = v
    /\ UNCHANGED <<labels, data, color1, color2, darkMode, showImport, importText,
                   noteMode, note1, note2>>
    /\ SaveEffect

\* onChange={(e) => setNote1(e.target.value)}, shown in individual mode
SetNote1 ==
    /\ Step
    /\ noteMode = "individual"
    /\ \E v \in NoteInputs : note1' = v
    /\ UNCHANGED <<labels, data, color1, color2, darkMode, showImport, importText,
                   noteMode, sharedNote, note2>>
    /\ SaveEffect

\* onChange={(e) => setNote2(e.target.value)}, shown in individual mode
SetNote2 ==
    /\ Step
    /\ noteMode = "individual"
    /\ \E v \in NoteInputs : note2' = v
    /\ UNCHANGED <<labels, data, color1, color2, darkMode, showImport, importText,
                   noteMode, sharedNote, note1>>
    /\ SaveEffect

\* The state an earlier visit left behind: the title of the first metric,
\* both base colours, dark mode, the note mode and the three notes were
\* edited, and all rows but one, edited too, were removed.
EarlierState ==
    [labels |-> [DEFAULT_LABELS EXCEPT !.title1 = <<"T">>],
     data |-> <<[category |-> <<"Z">>, metric1 |-> Num(7), metric2 |-> Num(0)]>>,
     color1 |-> <<"#", "0", "0", "f", "f", "0", "0">>,
     color2 |-> <<"#", "0", "0", "0", "0", "f", "f">>,
     darkMode |-> TRUE, noteMode |-> "individual",
     sharedNote |-> <<"s">>, note1 |-> <<"p">>, note2 |-> <<"q">>]

\* What localStorage may hold when the page is opened: nothing, an item
\* that is not a configuration, or the configuration the save effect wrote
\* on an earlier visit.
InitialItems ==
    {Absent, EmptyText, NotJson, JsonNullText, JsonPrimitive, JsonArray,
     JsonStringify(EarlierState)}

Init ==
    /\ InitApp
    /\ storage \in InitialItems
    /\ phase = "mount"
    /\ pending = NoUpdates
    /\ savedConfig = Unread
    /\ beforeRestart = NoRestart
    /\ pc = "done"
    /\ IdleParse /\ IdleScale /\ IdleChart /\ IdleLabel

Next ==
    \/ MountEffects \/ Rerender \/ Restart
    \/ ToggleDarkMode \/ SetColor1 \/ SetColor2 \/ SetTitle1 \/ SetTitle2
    \/ ToggleShowImport \/ SetImportText \/ HandleImport
    \/ HandleDataChange \/ AddRow \/ RemoveRow
    \/ ResetConfirmed \/ ResetDeclined
    \/ SetNoteMode \/ SetSharedNote \/ SetNote1 \/ SetNote2

Spec == Init /\ [][Next]_vars

(***************************************************************************)
(* The charts box of App (App.tsx) and BubbleChart (src/unnamed/part_000): *)
(* the guard on an empty dataset, the leaves and the circle fills of the   *)
(* render effect, and the colours of the insights table.                   *)
(***************************************************************************)
RECURSIVE Dedupe(_, _)
\* The keys in first-occurrence order, each once.
Dedupe(keys, seen) ==
    IF keys = <<>> THEN seen
    ELSE IF \E k \in 1..Len(seen) : seen[k] = Head(keys) THEN Dedupe(Tail(keys), seen)
    ELSE Dedupe(Tail(keys), Append(seen, Head(keys)))

\* d3.scaleOrdinal().domain(names): an ordinal domain holds each value once.
OrdinalDomain(names) == Dedupe(names, <<>>)

\* colorScale(d): the range entry at the domain index of d, cyclically; a
\* value not in the domain is appended to it (the implicit domain).
ColorScale(domain, range, d) ==
    LET i == IF \E k \in 1..Len(domain) : domain[k] = d
             THEN (CHOOSE k \in 1..Len(domain) : domain[k] = d) - 1
             ELSE Len(domain)
    IN  IF Len(range) = 0 THEN Undefined ELSE range[(i % Len(range)) + 1]

\* root.leaves() of d3.hierarchy({children: data}): one leaf per row, in
\* order; without rows the root has no children and is itself the one leaf.
Leaves(rows) ==
    IF rows = <<>> THEN <<[name |-> Undefined, value |-> 0]>> ELSE rows

\* .attr("fill", d => colorScale(d.data.name)) over the leaves
CircleFills(rows, colors) ==
    LET domain == OrdinalDomain([i \in 1..Len(rows) |-> rows[i].name])
        leaves == Leaves(rows)
    IN  [i \in 1..Len(leaves) |-> ColorScale(domain, colors, leaves[i].name)]

\* The charts box of App: BubbleChart is rendered only when data.length is
\* not 0 ("No data available." otherwise); the leaves one chart lays out.
DrawnLeaves(rows) == IF Len(rows) = 0 THEN <<>> ELSE Leaves(rows)

\* Faulty variant: BubbleChart is rendered also for an empty dataset.
DrawnCirclesUnguarded(rows, colors) == CircleFills(rows, colors)

\* The charts box of App: the circles one chart draws, none when the
\* dataset is empty.
DrawnCircles(rows, colors) ==
    IF Len(rows) = 0 THEN <<>> ELSE CircleFills(rows, colors)

\* palette1[idx % palette1.length], idx 0-based
TableColor(colors, idx) == colors[(idx % Len(colors)) + 1]

\* array.reverse()
Reverse(xs) == [i \in 1..Len(xs) |-> xs[Len(xs) + 1 - i]]

MaxChartRows == 4

ChartNames == {<<"A">>, <<"B">>}

ChartRows == [name : ChartNames, value : {10}]

\* The palettes of the application, and a palette shorter than the data.
\* xs, reversed or as it is.
Oriented(xs, reversed) == IF reversed THEN Reverse(xs) ELSE xs

ChartPalettes ==
    { Oriented(GenerateScale(p[1], p[2]), p[3]) :
          p \in {<<DEFAULT_COLOR_1, 5, TRUE>>, <<DEFAULT_COLOR_2, 5, FALSE>>,
                  <<DEFAULT_COLOR_2, 2, FALSE>>} }

\* The datasets the charts box is rendered with: any number of rows, none
\* included (every row can be removed, and an import can return no row).
InitChart ==
    /\ chartData \in UNION {[1..k -> ChartRows] : k \in 0..MaxChartRows}
    /\ chartColors \in ChartPalettes
    /\ fills = <<>>
    /\ pc = "call"
    /\ IdleParse /\ IdleScale /\ IdleLabel /\ InitApp /\ IdleStore

\* One chart of the charts box is rendered: the placeholder for an empty
\* dataset, BubbleChart and its render effect otherwise.
Render ==
    /\ pc = "call"
    /\ fills' = DrawnCircles(chartData, chartColors)
    /\ pc' = "done"
    /\ UNCHANGED <<chartData, chartColors, parseVars, scaleVars, appVars, labelVars>>

NextChart == Render

SpecChart == InitChart /\ [][NextChart]_vars

(***************************************************************************)
(* The name label of a leaf (src/unnamed/part_000, textLabels.each).  A    *)
(* length that may be a square root is held as its square, an exact        *)
(* rational <<n, d>>: lengths are not negative, so the minimum, the        *)
(* maximum and the order of two lengths are those of their squares.        *)
(***************************************************************************)
SqOf(x) == RMul(x, x)

\* Math.min and Math.max of two lengths held as squares.
MinSq(a, b) == IF RLess(b, a) THEN b ELSE a
MaxSq(a, b) == IF RLess(a, b) THEN b ELSE a

\* Faulty variant: without the floor of 6px.
FontSizeNoFloor(r, charCount) ==
    LET start == MinSq(SqOf(Rat(2 * r, 9)), SqOf(Rat(11, 1)))
        areaHeuristic == IF charCount > 0
                         THEN RMul(SqOf(Rat(r, 1)), Rat(14, 5 * charCount))
                         ELSE start
    IN  IF charCount > 0 THEN MinSq(start, areaHeuristic) ELSE start

\* fontSize, as its square:
\*   let fontSize = Math.min(radius / 4.5, 11)
\*   if (charCount > 0) fontSize = Math.min(fontSize, radius * Math.sqrt(2.8 / charCount))
\*   fontSize = Math.max(fontSize, 6)
FontSize(r, charCount) ==
    LET start == MinSq(SqOf(Rat(2 * r, 9)), SqOf(Rat(11, 1)))
        areaHeuristic == IF charCount > 0
                         THEN RMul(SqOf(Rat(r, 1)), Rat(14, 5 * charCount))
                         ELSE start
        fitted == IF charCount > 0 THEN MinSq(start, areaHeuristic) ELSE start
    IN  MaxSq(fitted, SqOf(Rat(6, 1)))

(***************************************************************************)
(* The inputs of the font size: every whole radius up to MaxRadius and a   *)
(* name of every length up to MaxChars (only name.length is read).         *)
(***************************************************************************)
MaxRadius == 60
MaxChars == 60

NameOfLength(n) == [k \in 1..n |-> "x"]

InitFont ==
    /\ radius \in 1..MaxRadius
    /\ name \in {NameOfLength(n) : n \in 0..MaxChars}
    /\ charWidth = 0 /\ fontSize = <<0, 1>>
    /\ lineWords = <<>> /\ tspans = <<>> /\ tspan = 0 /\ currentY = <<0, 1>>
    /\ wordIndex = 0
    /\ pc = "call"
    /\ IdleParse /\ IdleScale /\ IdleChart /\ InitApp /\ IdleStore

\* el.style("font-size", fontSize + "px")
FitFont ==
    /\ pc = "call"
    /\ fontSize' = FontSize(radius, Len(name))
    /\ pc' = "fitted"
    /\ UNCHANGED <<radius, name, charWidth, lineWords, tspans, tspan, currentY,
                   wordIndex, parseVars, scaleVars, chartVars, appVars>>

NextFont == FitFont

SpecFont == InitFont /\ [][NextFont]_vars

(***************************************************************************)
(* The word wrap of the name label (src/unnamed/part_000, lines 118-165).  *)
(* It is studied for radii and names whose font size is rational, so that  *)
(* currentY is an exact rational; the rendered length of a text, which the *)
(* browser measures, is charWidth px per character.                        *)
(***************************************************************************)
RECURSIVE SplitWsAcc(_, _, _, _)
SplitWsAcc(s, cur, acc, inRun) ==
    IF s = <<>> THEN Append(acc, cur)
    ELSE IF IsSpace(Head(s))
         THEN IF inRun THEN SplitWsAcc(Tail(s), cur, acc, TRUE)
              ELSE SplitWsAcc(Tail(s), <<>>, Append(acc, cur), TRUE)
    ELSE SplitWsAcc(Tail(s), Append(cur, Head(s)), acc, FALSE)

\* name.split(/\s+/)
Words(str) == SplitWsAcc(str, <<>>, <<>>, FALSE)

\* The length whose square is q, for q the square of a rational.
RootOf(q) ==
    <<CHOOSE k \in 0..q[1] : k * k = q[1], CHOOSE k \in 1..q[2] : k * k = q[2]>>

\* const lineHeight = fontSize * 1.1
LineHeight(size) == RMul(RootOf(size), Rat(11, 10))

\* currentY < radius * 0.9 (and, currentY being positive, the negation of
\* absY >= radius * 0.9 in getWidthAtY)
Above(y, r) == RLess(y, Rat(9 * r, 10))

\* getWidthAtY(y), as its square: 0 from 0.9 * radius on, otherwise
\* (2 * Math.sqrt(radius * radius - absY * absY) * 0.9) squared.
GetWidthAtY(y, r) ==
    IF ~Above(y, r) THEN <<0, 1>>
    ELSE RMul(Rat(81, 25), RSub(Rat(r * r, 1), SqOf(y)))

\* node.getComputedTextLength() > allowedWidth
TooLong(text, width, allowedWidth) ==
    RLess(allowedWidth, SqOf(Rat(width * Len(text), 1)))

\* tspan.text(value) on the tspan the variable refers to
SetText(spans, k, value) == [spans EXCEPT ![k].text = value]

MaxWords == 4

WrapWords == {<<"a", "b">>, <<"a", "b", "c", "d", "e">>}
WrapNames == {Join(ws, " ") : ws \in SeqsUpTo(WrapWords, MaxWords)}
WrapRadii == {9, 45}
CharWidths == {3, 6}

InitWrap ==
    /\ radius \in WrapRadii
    /\ name \in WrapNames
    /\ charWidth \in CharWidths
    /\ fontSize = <<0, 1>>
    /\ lineWords = <<>> /\ tspans = <<>> /\ tspan = 0 /\ currentY = <<0, 1>>
    /\ wordIndex = 0
    /\ pc = "call"
    /\ IdleParse /\ IdleScale /\ IdleChart /\ InitApp /\ IdleStore

\* let currentY = radius * 0.1; let line = []; let tspan = el.append("tspan")
\* .attr("y", currentY).text(null); allowedWidth = getWidthAtY(currentY)
StartWrap ==
    /\ pc = "fitted"
    /\ currentY' = Rat(radius, 10)
    /\ lineWords' = <<>>
    /\ tspans' = <<[y |-> Rat(radius, 10), text |-> <<>>]>>
    /\ tspan' = 1
    /\ wordIndex' = 0
    /\ pc' = "wrap"
    /\ UNCHANGED <<radius, name, charWidth, fontSize, parseVars, scaleVars, chartVars,
                   appVars>>

\* One iteration of for (let i = 0; i < words.length; i++).
WrapWord ==
    /\ pc = "wrap"
    /\ wordIndex < Len(Words(name))
    /\ LET word == Words(name)[wordIndex + 1]
           pushed == Append(lineWords, word)
           nextY == RAdd(currentY, LineHeight(fontSize))
       IN  IF /\ TooLong(Join(pushed, " "), charWidth, GetWidthAtY(currentY, radius))
              /\ Len(pushed) > 1
           THEN /\ lineWords' = <<word>>
                /\ currentY' = nextY
                /\ IF Above(nextY, radius)
                   THEN /\ tspans' = Append(SetText(tspans, tspan, Join(lineWords, " ")),
                                            [y |-> nextY, text |-> word])
                        /\ tspan' = Len(tspans) + 1
                   ELSE /\ tspans' = SetText(tspans, tspan, Join(lineWords, " "))
                        /\ tspan' = tspan
           ELSE /\ lineWords' = pushed
                /\ tspans' = SetText(tspans, tspan, Join(pushed, " "))
                /\ UNCHANGED <<currentY, tspan>>
    /\ wordIndex' = wordIndex + 1
    /\ pc' = IF wordIndex + 1 = Len(Words(name)) THEN "done" ELSE "wrap"
    /\ UNCHANGED <<radius, name, charWidth, fontSize, parseVars, scaleVars, chartVars,
                   appVars>>

NextWrap == FitFont \/ StartWrap \/ WrapWord

SpecWrap == InitWrap /\ [][NextWrap]_vars

(***************************************************************************)
(* Claims about parseCSV, checked under SpecParse.                         *)
(***************************************************************************)
Done == pc = "done"
Returned == Done /\ parsed # TypeError

\* The trimmed comma-separated fields of a line.
FieldsOf(line) == MapTrim(Split(line, ","))

\* The lines strictly after the 0-based line h.
LinesAfter(lines, h) == SubSeq(lines, h + 2, Len(lines))

\* The column layout the specification states: 1 when field 0 is empty and
\* the line has more than 3 fields, otherwise 0.
StatedShift(f) == IF f[1] = <<>> /\ Len(f) > 3 THEN 1 ELSE 0

\* A metric field that is missing, or empty once its percent sign is stripped.
Blank(f, i) == i >= Len(f) \/ ReplacePercent(f[i + 1]) = <<>>

\* A metric field that is there and parses as a number.
Parses(f, i) == ~Blank(f, i) /\ ~IsNaN(ParseFloat(ReplacePercent(f[i + 1])))

\* The number a metric field stands for (0 for a blank one).
StatedMetric(f, i) == IF Blank(f, i) THEN Zero ELSE ParseFloat(ReplacePercent(f[i + 1]))

\* The row the specification states for a line that is kept.
StatedRow(line) ==
    LET f == FieldsOf(line)
        k == StatedShift(f)
    IN  [category |-> f[k + 1], metric1 |-> StatedMetric(f, k + 1),
         metric2 |-> StatedMetric(f, k + 2)]

HasCategory(line) == LET f == FieldsOf(line) IN f[StatedShift(f) + 1] # <<>>

\* Both metric fields parse, each on its own.
BothParse(line) ==
    LET f == FieldsOf(line)
        k == StatedShift(f)
    IN  HasCategory(line) /\ Parses(f, k + 1) /\ Parses(f, k + 2)

\* x >= 0
NonNegative(x) == ~IsNaN(x) /\ x.sign > 0

\* Both metric fields parse to non-negative numbers, each on its own.
BothParseNonNegative(line) ==
    LET f == FieldsOf(line)
        k == StatedShift(f)
    IN  /\ BothParse(line)
        /\ NonNegative(StatedMetric(f, k + 1))
        /\ NonNegative(StatedMetric(f, k + 2))

RowsOf(ls) == [i \in 1..Len(ls) |-> StatedRow(ls[i])]

HeaderDetected(lines) ==
    \E i \in 1..Min(Len(lines), HeaderScan) : LooksLikeHeader(lines[i])

\* C1 (as stated): with a detectable header and at least one valid data row,
\* the number of rows returned is the number of lines after the header that
\* have a non-empty category and two metric fields that each parse, on their
\* own, as a non-negative number.
C1_RowCountIsValidLines ==
    Returned =>
        LET lines == CsvLines(csv)
            post == LinesAfter(lines, HeaderIndex(lines))
            valid == SelectSeq(post, BothParseNonNegative)
        IN  (HeaderDetected(lines) /\ Len(valid) >= 1) => Len(parsed.data) = Len(valid)

\* A legacy line: a leading empty column, more than 3 fields, a category and
\* two metrics that parse.
IsLegacyLine(line) ==
    LET f == FieldsOf(line) IN f[1] = <<>> /\ Len(f) > 3 /\ BothParse(line)

\* The category of a legacy line is text to the header scan: the second
\* field, a percent sign stripped, does not parse as a number.
TextCategory(line) == IsNaN(ParseFloat(ReplacePercent(FieldsOf(line)[2])))

AllLegacy(lines) == Len(lines) >= 1 /\ \A i \in 1..Len(lines) : IsLegacyLine(lines[i])

\* C2 (as stated): for legacy input without a header line, one row per input
\* line through the column shift; no line is consumed as a header.
C2_LegacyOneRowPerLine ==
    Returned =>
        LET lines == CsvLines(csv)
        IN  AllLegacy(lines) => parsed.data = RowsOf(lines)

\* C2 (amended): for legacy input whose categories are text, the first line
\* is taken as the header (its fields 1 and 2 are the titles) and there is
\* one row per line after the first, through the column shift.
C2_LegacyFirstLineIsHeader ==
    Returned =>
        LET lines == CsvLines(csv)
        IN  (AllLegacy(lines) /\ \A i \in 1..Len(lines) : TextCategory(lines[i])) =>
                /\ parsed.data = RowsOf(Tail(lines))
                /\ \A j \in 1..Len(parsed.data) :
                       parsed.data[j].category = FieldsOf(lines[j + 1])[2]
                /\ parsed.title1 = FieldsOf(lines[1])[2]
                /\ parsed.title2 = FieldsOf(lines[1])[3]

LegacyExample ==
    <<",", "X", ",", "1", "0", ",", "2", "0", "\n", ",", "Y", ",", "5", ",", "1", "5">>

\* The legacy example of the specification has been parsed: one row, Y.
C2_Witness ==
    /\ csv = LegacyExample
    /\ Returned
    /\ parsed.data = <<[category |-> <<"Y">>, metric1 |-> Num(5), metric2 |-> Num(15)]>>

\* The lines after the header that parse kept (those that pushed a row).
Kept(line) == RowsOfLine(line) # <<>>

\* C3: every kept line after the header gives the row of its trimmed fields,
\* the percent sign stripped from the metrics (category, metric1, metric2 =
\* fields 1, 2, 3 when field 0 is empty and there are more than 3 fields,
\* fields 0, 1, 2 otherwise), in the order of the lines, and every row has a
\* non-empty category.
C3_RowsFollowColumnLayout ==
    Returned =>
        LET lines == CsvLines(csv)
            post == LinesAfter(lines, HeaderIndex(lines))
        IN  /\ parsed.data = RowsOf(SelectSeq(post, Kept))
            /\ \A j \in 1..Len(parsed.data) : parsed.data[j].category # <<>>

\* A header, a line with percent signs and a legacy line were parsed into
\* two rows, in order.
C3_Witness ==
    /\ csv = Join(<< <<"c", ",", "A", ",", "B">>,
                     <<"X", ",", "1", "0", "%", ",", "2", "0", "%">>,
                     <<",", "Y", ",", "5", ",", "1", "5">> >>, "\n")
    /\ Returned
    /\ parsed.data = <<[category |-> <<"X">>, metric1 |-> Num(10), metric2 |-> Num(20)],
                       [category |-> <<"Y">>, metric1 |-> Num(5), metric2 |-> Num(15)]>>

\* A line qualifies as header: at least 3 comma-separated fields, and a
\* second field that, percent sign stripped, does not parse as a number.
Qualifies(line) ==
    LET f == Split(line, ",")
    IN  Len(f) >= 3 /\ IsNaN(ParseFloat(ReplacePercent(Trim(f[2]))))

\* The 0-based header row as stated: the first qualifying line among the
\* first 5 non-empty lines, else line 0.
StatedHeader(lines) ==
    IF \E i \in 1..Len(lines) : i <= 5 /\ Qualifies(lines[i])
    THEN (CHOOSE i \in 1..Len(lines) :
              /\ i <= 5 /\ Qualifies(lines[i])
              /\ \A j \in 1..(i - 1) : ~Qualifies(lines[j])) - 1
    ELSE 0

\* C4: the header row is the first of the first 5 non-empty lines that
\* qualifies, else line 0; only lines strictly after it give rows; title1 and
\* title2 are its fields 1 and 2, "Metric 1" / "Metric 2" when a field is
\* missing or empty.
C4_HeaderRowAndTitles ==
    Returned /\ CsvLines(csv) # <<>> =>
        LET lines == CsvLines(csv)
            h == StatedHeader(lines)
            f == FieldsOf(lines[h + 1])
        IN  /\ parsed.title1 = (IF Len(f) >= 2 /\ f[2] # <<>> THEN f[2] ELSE MetricDefault1)
            /\ parsed.title2 = (IF Len(f) >= 3 /\ f[3] # <<>> THEN f[3] ELSE MetricDefault2)
            /\ parsed.data = RowsOf(SelectSeq(LinesAfter(lines, h), Kept))
            /\ Len(parsed.data) <= Len(lines) - (h + 1)

\* Six lines were parsed of which only the sixth qualifies as a header: it is
\* past the scan, so line 0 is the header and the sixth line gives no title.
C4_Witness ==
    LET lines == CsvLines(csv)
    IN  /\ Returned
        /\ Len(lines) = 6
        /\ \A i \in 1..5 : ~Qualifies(lines[i])
        /\ Qualifies(lines[6])
        /\ parsed.title1 = <<"2">>
        /\ Len(parsed.data) >= 1

\* C5 (as stated): a line after the header is kept only if both metric fields
\* parse; a line with one malformed metric (missing, empty or non-numeric) is
\* discarded, never emitted with that metric set to 0.  (parseCSV emits the
\* line "X,7" after a header as the row {X, 7, 0}: a missing or empty metric
\* is replaced by '0' before it is parsed.)
C5_MalformedMetricDiscards ==
    Returned =>
        LET lines == CsvLines(csv)
            post == LinesAfter(lines, HeaderIndex(lines))
        IN  parsed.data = RowsOf(SelectSeq(post, BothParse))

\* C6: parse always returns a {title1, title2, data} value and never throws;
\* bad input only means fewer rows (never more than the lines after the first)
\* or default titles; a text without a non-empty line gives "Metric 1",
\* "Metric 2" and no rows.
C6_ParseIsTotal ==
    Done =>
        LET lines == CsvLines(csv)
        IN  /\ parsed # TypeError
            /\ DOMAIN parsed = {"title1", "title2", "data"}
            /\ parsed.title1 # <<>> /\ parsed.title2 # <<>>
            /\ Len(parsed.data) <= (IF Len(lines) = 0 THEN 0 ELSE Len(lines) - 1)
            /\ \A j \in 1..Len(parsed.data) :
                   /\ parsed.data[j].category # <<>>
                   /\ parsed.data[j].metric1.cls \in {"finite", "infinite"}
                   /\ parsed.data[j].metric2.cls \in {"finite", "infinite"}
            /\ lines = <<>> =>
                   parsed = [title1 |-> MetricDefault1, title2 |-> MetricDefault2,
                             data |-> <<>>]

\* A text of white space and line breaks only was parsed.
C6_Witness ==
    /\ Len(csv) >= 3
    /\ CsvLines(csv) = <<>>
    /\ Done
    /\ parsed.data = <<>>

(***************************************************************************)
(* Claims about generateScale, checked under SpecScale.                    *)
(***************************************************************************)
Parseable == D3Color(baseColor) # Null

\* The lightness of a "#rrggbb" string: (max + min) / 2 of its channels.
HexLightness(hex) ==
    LET r == 16 * HexVal(hex[2]) + HexVal(hex[3])
        g == 16 * HexVal(hex[4]) + HexVal(hex[5])
        b == 16 * HexVal(hex[6]) + HexVal(hex[7])
    IN  Rat(Max(r, Max(g, b)) + Min(r, Min(g, b)), 510)

\* 0.55 at index 0, down to 0.20 at index n - 1 of n, linear in the index.
RampLightness(n, i) == IF n = 1 THEN <<11, 20>> ELSE Rat(11 * (n - 1) - 7 * i, 20 * (n - 1))

\* The hex colour of the base's hue and saturation at the lightness l (the
\* double nearest to the rational l).
ShadeOfBase(l) ==
    LET base == D3Hsl(D3Color(baseColor))
    IN  FormatHex([h |-> base.h, s |-> base.s, l |-> DDiv(Num(l[1]), Num(l[2]))])

\* Two "#rrggbb" strings whose channels are at most one apart each.
HexNear(x, y) ==
    \A k \in {2, 4, 6} :
        Abs((16 * HexVal(x[k]) + HexVal(x[k + 1]))
            - (16 * HexVal(y[k]) + HexVal(y[k + 1]))) <= 1

\* Within the rounding of a channel to 0..255: at most 1/255 apart.
Near(x, y) == LET d == RSub(x, y) IN ~RLess(<<1, 255>>, <<Abs(d[1]), d[2]>>)

StrictlyDarker ==
    \A i \in 1..(Len(palette) - 1) :
        RLess(HexLightness(palette[i + 1]), HexLightness(palette[i]))

\* C9 (as stated): for a parseable base and steps >= 1, exactly steps colours
\* of the base's hue and saturation (to within one in each channel, the
\* rounding of the scale), lightness 0.55 at index 0 and, for steps >= 2,
\* linear down to 0.20 at index steps - 1, strictly decreasing.
C9_RampFromFirstIndex ==
    (Done /\ Parseable /\ steps >= 1) =>
        /\ Len(palette) = steps
        /\ \A i \in 1..Len(palette) :
               /\ HexNear(palette[i], ShadeOfBase(RampLightness(steps, i - 1)))
               /\ Near(HexLightness(palette[i]), RampLightness(steps, i - 1))
        /\ Near(HexLightness(palette[1]), <<11, 20>>)
        /\ StrictlyDarker

\* The base has no hue or saturation (a grey, a transparent colour), or a
\* saturation from 0 to 1: every shade of it has its channels in 0..255.
InGamut ==
    LET base == D3Hsl(D3Color(baseColor))
    IN  \/ IsNaN(base.h)
        \/ IsNaN(base.s)
        \/ ~DLess(base.s, Zero) /\ ~DLess(Num(1), base.s)

\* C9 (amended): for a parseable base whose saturation is within 0..1 (or
\* that has none), as stated for steps >= 2 (0.55 at index 0, 0.20 at index
\* steps - 1); for steps = 1 the one colour has lightness 0.375, the middle
\* of the range.  Each colour is within one in each channel of the base's
\* hue and saturation at that lightness.
C9_RampOrMidpoint ==
    (Done /\ Parseable /\ InGamut /\ steps >= 1) =>
        /\ Len(palette) = steps
        /\ steps >= 2 =>
               /\ \A i \in 1..Len(palette) :
                      /\ HexNear(palette[i], ShadeOfBase(RampLightness(steps, i - 1)))
                      /\ Near(HexLightness(palette[i]), RampLightness(steps, i - 1))
               /\ Near(HexLightness(palette[1]), <<11, 20>>)
               /\ Near(HexLightness(palette[steps]), <<1, 5>>)
               /\ StrictlyDarker
        /\ steps = 1 =>
               /\ HexNear(palette[1], ShadeOfBase(<<3, 8>>))
               /\ Near(HexLightness(palette[1]), <<3, 8>>)

\* generateScale("#4F5870", 5) has returned its 5 shades.
C9_Witness ==
    /\ Done
    /\ baseColor = <<"#", "4", "F", "5", "8", "7", "0">>
    /\ steps = 5
    /\ palette = << <<"#", "7", "8", "8", "3", "a", "0">>,
                    <<"#", "6", "2", "6", "d", "8", "a">>,
                    <<"#", "4", "f", "5", "8", "7", "0">>,
                    <<"#", "3", "d", "4", "4", "5", "6">>,
                    <<"#", "2", "a", "2", "f", "3", "c">> >>

\* C10: for a base that does not parse and steps >= 0, exactly steps entries,
\* each the input string unchanged (and a value is returned, not an error).
C10_UnparseableIsRepeated ==
    (Done /\ ~Parseable) =>
        /\ Len(palette) = steps
        /\ \A i \in 1..steps : i \in DOMAIN palette /\ palette[i] = baseColor

\* generateScale("not-a-color", 3) has returned three copies of its input.
C10_Witness ==
    /\ Done
    /\ baseColor = <<"n", "o", "t", "-", "a", "-", "c", "o", "l", "o", "r">>
    /\ steps = 3
    /\ palette = <<baseColor, baseColor, baseColor>>

(***************************************************************************)
(* Claims about the application state (Spec) and the chart (SpecChart).    *)
(***************************************************************************)
\* C7 (as stated): in every reachable application state every row has
\* metric1 and metric2 that are finite and non-negative.
FiniteNonNegative(x) == IsFinite(x) /\ x.sign > 0

C7_MetricsNonNegative ==
    \A i \in 1..Len(data) :
        /\ FiniteNonNegative(data[i].metric1)
        /\ FiniteNonNegative(data[i].metric2)

\* C8 (as stated): the circle of row i is filled with palette entry
\* i mod (palette length), also when rows share a category name, and that is
\* the entry the insights table uses for row i.
C8_FillIsPaletteAtRowIndex ==
    Done =>
        \A i \in 1..Len(chartData) :
            /\ fills[i] = chartColors[((i - 1) % Len(chartColors)) + 1]
            /\ fills[i] = TableColor(chartColors, i - 1)

(***************************************************************************)
(* Claims about the name label, checked under SpecFont.                    *)
(***************************************************************************)
Fitted == pc = "fitted"

\* Math.min(radius / 4.5, 11), as its square, written out from the claim.
StartingSize == MinSq(Rat(4 * radius * radius, 81), <<121, 1>>)
SixPx == <<36, 1>>
Leq(a, b) == ~RLess(b, a)

\* C11 (as stated): for every radius r > 0 and every name, the font size of
\* the name label is at least 6px and at most min(r / 4.5, 11) px.
C11_FontSizeWithinStart ==
    Fitted => Leq(SixPx, fontSize) /\ Leq(fontSize, StartingSize)

\* C11 (amended): the font size of the name label is at least 6px and at
\* most max(6, min(r / 4.5, 11)) px: it is exactly 6px when r / 4.5 < 6
\* (r < 27), and at most min(r / 4.5, 11) px otherwise.
C11_FontSizeFlooredAtSix ==
    Fitted =>
        /\ Leq(SixPx, fontSize)
        /\ Leq(fontSize, MaxSq(SixPx, StartingSize))
        /\ radius < 27 => fontSize = SixPx
        /\ radius >= 27 => Leq(fontSize, StartingSize)

\* C11: a circle of radius 9 with a name of 3 characters has been fitted:
\* min(r / 4.5, 11) is 2px and the font size is the floor, 6px.
C11_Witness ==
    /\ Fitted /\ radius = 9 /\ Len(name) = 3
    /\ StartingSize = <<4, 1>>
    /\ fontSize = SixPx

(***************************************************************************)
(* Claims about the leaves of the chart, checked under SpecChart.          *)
(***************************************************************************)
\* C12: for every list of n >= 0 rows the chart lays out exactly n leaves,
\* one per row in order, and draws one circle per leaf; for zero rows there
\* is no leaf and no circle is drawn (the charts box shows its placeholder
\* and BubbleChart is not rendered).
C12_OneLeafPerRow ==
    Done =>
        /\ Len(DrawnLeaves(chartData)) = Len(chartData)
        /\ Len(fills) = Len(chartData)
        /\ \A k \in 1..Len(chartData) : DrawnLeaves(chartData)[k] = chartData[k]

\* C12: a dataset of MaxChartRows rows, two of them of one name, has been
\* rendered: one circle was drawn for each row.
C12_Witness ==
    /\ Done
    /\ Len(chartData) = MaxChartRows
    /\ chartData[1].name = chartData[2].name
    /\ Len(fills) = MaxChartRows
    /\ DrawnLeaves(chartData) = chartData

(***************************************************************************)
(* Claims about persistence, checked under Spec.                           *)
(***************************************************************************)
Ready == phase = "ready"

\* The page was reloaded, the mount has finished, and no event has been
\* handled since.
Restarted == Ready /\ beforeRestart # NoRestart

\* C13 (as stated): once the save effect has run, the stored item holds the
\* current values of all nine fields; and after a reload (load effect, then
\* save effect, then the render of the loaded state) the state equals the
\* state before the reload, and the stored item still holds that state.
C13_PersistenceRoundTrip ==
    /\ Ready => storage = JsonObject(SavedState)
    /\ Restarted => SavedState = beforeRestart /\ storage = JsonObject(beforeRestart)

\* The nine persisted fields at their default values.
DefaultState ==
    [labels |-> DEFAULT_LABELS, data |-> DEFAULT_DATA, color1 |-> DEFAULT_COLOR_1,
     color2 |-> DEFAULT_COLOR_2, darkMode |-> FALSE, noteMode |-> "shared",
     sharedNote |-> <<>>, note1 |-> <<>>, note2 |-> <<>>]

\* An item that is not valid JSON, or that is valid JSON but not an object.
Corrupt(item) == item \in {NotJson, JsonNullText, JsonPrimitive, JsonArray}

\* C14: when the item read on startup is not valid JSON or is not an object,
\* no update is queued from it and, through the mount and until the first
\* event, every state field has its default value; the mount completes.
C14_CorruptItemLeavesDefaults ==
    (phase \in {"loaded", "ready"} /\ Corrupt(savedConfig)) =>
        /\ pending = NoUpdates
        /\ SavedState = DefaultState
        /\ showImport = FALSE /\ importText = <<>>

\* C14: the mount has completed from an item that is not JSON: the state is
\* the default state and the event handlers are enabled.
C14_Witness ==
    /\ Ready /\ savedConfig = NotJson
    /\ SavedState = DefaultState
    /\ nOps < MaxOps

(***************************************************************************)
(* Claims about the handlers, checked under Spec.                          *)
(***************************************************************************)
\* A step of the import action: the Load Data button is pressed on the open
\* import panel, which closes with its text cleared.
ImportStep ==
    /\ Ready /\ phase' = "ready"
    /\ showImport /\ ~showImport'
    /\ importText # <<>> /\ importText' = <<>>

\* C15: an import replaces the dataset wholesale: afterwards the rows are
\* exactly the rows parse returns for the import text (none of the earlier
\* rows is kept, also when parse returns no row) and the labels are exactly
\* the parsed titles; both base colours, dark mode, the note mode and the
\* three notes are unchanged.
C15_ImportReplacesDataset ==
    [][ImportStep =>
            /\ data' = ParseCSV(importText).data
            /\ labels' = [title1 |-> ParseCSV(importText).title1,
                          title2 |-> ParseCSV(importText).title2]
            /\ UNCHANGED <<color1, color2, darkMode, noteMode, sharedNote, note1, note2>>
       ]_vars

\* C15: the header-only text "c,A,B" has been imported over the rows and
\* the edited title, colours, dark mode and notes of an earlier visit: parse
\* returned no row and no row is left, the titles are A and B, and the
\* colours, dark mode, the note mode and the notes are the edited ones.
C15_Witness ==
    /\ Ready /\ ~showImport /\ importText = <<>>
    /\ nOps = 3
    /\ data = <<>>
    /\ labels = [title1 |-> <<"A">>, title2 |-> <<"B">>]
    /\ color1 = EarlierState.color1 /\ color2 = EarlierState.color2
    /\ color1 # DEFAULT_COLOR_1 /\ color2 # DEFAULT_COLOR_2
    /\ darkMode
    /\ noteMode = "individual"
    /\ sharedNote = <<"s">> /\ note1 = <<"p">> /\ note2 = <<"q">>

\* C17: resetDefaults with the dialog confirmed sets labels, rows, both base
\* colours, the note mode and the three notes to their defaults and leaves
\* dark mode (and the import panel) as it was; with the dialog declined no
\* state field changes.
C17_ResetFrame ==
    [][/\ confirmAnswer' = "yes" =>
            /\ SavedState' = [DefaultState EXCEPT !.darkMode = darkMode]
            /\ UNCHANGED <<darkMode, showImport, importText>>
       /\ confirmAnswer' = "no" =>
            UNCHANGED <<labels, data, color1, color2, darkMode, showImport, importText,
                        noteMode, sharedNote, note1, note2>>
      ]_vars

\* C17: the last event was a confirmed reset, made in dark mode after an
\* edit: the persisted fields are the defaults except dark mode, still on.
C17_Witness ==
    /\ Ready /\ confirmAnswer = "yes" /\ nOps = 3
    /\ darkMode
    /\ SavedState = [DefaultState EXCEPT !.darkMode = TRUE]
    /\ storage = JsonObject(SavedState)

(***************************************************************************)
(* Claims about the word wrap of the name label, checked under SpecWrap.   *)
(***************************************************************************)
\* The text the visible lines read, in order.
VisibleText == Join([k \in 1..Len(tspans) |-> tspans[k].text], " ")

\* The texts that are a prefix of the word sequence of the name.
WordPrefixes == {Join(SubSeq(Words(name), 1, k), " ") : k \in 0..Len(Words(name))}

\* Wrapping has moved below the last visible line: the current line is one
\* that is clipped.
Clipped == ~Above(currentY, radius)

\* C16 (as stated): lines at a vertical offset of 0.9 r or more are never
\* written into the visible output: after every iteration of the wrap loop
\* the visible lines, read in order, are a prefix of the name's word
\* sequence, and every line is one that lies above 0.9 r; and once wrapping
\* has moved past a visible line its text does not change.
C16_VisibleLinesArePrefix ==
    pc \in {"wrap", "done"} =>
        /\ \A k \in 1..Len(tspans) : Above(tspans[k].y, radius)
        /\ VisibleText \in WordPrefixes

====
